---- MODULE Spec2Model ----
(***************************************************************************)
(* Model of the partition / qi-number engine of qi_validate:               *)
(*   Graph (src/src/Graph.cpp), Partition and its qi cache and the exact   *)
(*   and heuristic qi computations (src/src/Partition.cpp), the merge      *)
(*   operations (src/src/Operations.cpp, src/src/McOperations.cpp).        *)
(*                                                                         *)
(* Every call of the public interface is one action.  The last call and    *)
(* what it did (oracle consulted, search statistics, value before) are     *)
(* kept in the history variable "call".  The merge-and-validate loop of    *)
(* main (src/src/Main.cpp) is a further specification; its position and    *)
(* verdict are kept in "driver".                                           *)
(***************************************************************************)
EXTENDS Integers, Sequences, FiniteSets, TLC

\* ---------------------------------------------------------------- constants
\* Partition::MAX_VERTICES, capacity of every label-indexed array.
MAX_VERTICES == 100

\* calculateQiNumberInternal(graph, min_required_qi): "if (k > 15)" selects
\* the DSATUR path; at most this many blocks go to the exact search.
EXACT_MAX_BLOCKS == 15

\* calculateQiNumberInternal(graph) announces the exact algorithm for
\* "(k <= 16)".
ANNOUNCED_EXACT_MAX_BLOCKS == 16

\* ------------------------------------------------------------------- bounds
\* Small graphs: every graph on 1..MaxV vertices.
MaxV == 3
\* Large graphs: LargeV vertices, complete except for some of the pairs
\* among vertices 0, 1, 2.
LargeV == 17
\* Thresholds min_required_qi range over 0..MaxThreshold.
MaxThreshold == 3

VARIABLES graph, partition, result, call, driver

vars == <<graph, partition, result, call, driver>>

\* ------------------------------------------------------------------ helpers
MinOf(S) == CHOOSE x \in S : \A y \in S : x <= y

MaxOf(S) == CHOOSE x \in S : \A y \in S : x >= y

RECURSIVE SortedSeq(_)
\* The elements of a finite set of integers in increasing order.
SortedSeq(S) ==
    IF S = {} THEN <<>>
    ELSE LET m == MinOf(S) IN <<m>> \o SortedSeq(S \ {m})

RECURSIVE Pow2(_)
Pow2(b) == IF b = 0 THEN 1 ELSE 2 * Pow2(b - 1)

\* ------------------------------------------------------------------- Graph
\* A Graph is [num_vertices, adjMatrix_, critical_k]; adjMatrix_ is the set
\* of index pairs <<src, dest>> whose matrix entry is 1.
VertexPairs(n) == {e \in (0..(n - 1)) \X (0..(n - 1)) : e[1] < e[2]}

\* Graph::addConnection: sets both [src][dest] and [dest][src].
addConnection(adj, src, dest) == adj \cup {<<src, dest>>, <<dest, src>>}

\* Graph::addEdge.
addEdge(adj, src, dest) == addConnection(addConnection(adj, src, dest), dest, src)

\* Graph::Graph then init(n) then addEdge for every edge line: the state
\* of a Graph after a successful load (critical_k is left at 0).
LoadedGraph(n, E) ==
    [num_vertices |-> n,
     adjMatrix_ |-> UNION {addEdge({}, e[1], e[2]) : e \in E},
     critical_k |-> 0]

\* Graph::hasEdge.
hasEdge(G, src, dest) == <<src, dest>> \in G.adjMatrix_

SmallGraphs ==
    UNION {{LoadedGraph(n, E) : E \in SUBSET VertexPairs(n)} : n \in 1..MaxV}

\* The two graphs the specification names as examples: the 4-cycle and K4.
Cycle4 == LoadedGraph(4, {<<0, 1>>, <<1, 2>>, <<2, 3>>, <<0, 3>>})

K4 == LoadedGraph(4, VertexPairs(4))

ExampleGraphs == {Cycle4, K4}

\* Large graphs: complete graphs with some of the pairs among vertices
\* 0, 1, 2 removed (chromatic number LargeV - 2 .. LargeV).
LargeGraphs ==
    {LoadedGraph(LargeV, VertexPairs(LargeV) \ M) : M \in SUBSET VertexPairs(3)}

\* --------------------------------------------------------------- Partition
\* A Partition is [num_vertices_, partition_, qi_calculated_, qi_number_];
\* partition_ is the label array restricted to 0..num_vertices_-1 (the
\* entries beyond are zero-filled and only ever copied).
Vertices(P) == 0..(P.num_vertices_ - 1)

\* Values an uninitialised int may hold (qi_number_ is not set by the
\* constructors).
UninitInts == {0 - 1, 0}

\* Partition::Partition(): no vertices, cache invalid.
DefaultPartition(garbage) ==
    [num_vertices_ |-> 0, partition_ |-> <<>>,
     qi_calculated_ |-> FALSE, qi_number_ |-> garbage]

\* Partition::Partition(const int*, int) applied to main's identity array.
IdentityPartition(n, garbage) ==
    [num_vertices_ |-> n, partition_ |-> [v \in 0..(n - 1) |-> v],
     qi_calculated_ |-> FALSE, qi_number_ |-> garbage]

\* Partition::invalidateQiCache.
invalidateQiCache(P) == [P EXCEPT !.qi_calculated_ = FALSE]

\* Partition::getLabel.
getLabel(P, vertex) == P.partition_[vertex]

\* Partition::copyFrom: the copy constructor and the assignment.
copyFrom(other) ==
    [num_vertices_ |-> other.num_vertices_, partition_ |-> other.partition_,
     qi_calculated_ |-> other.qi_calculated_, qi_number_ |-> other.qi_number_]

\* setLabel leaving the cache flag as it is.
setLabelKeepCache(P, vertex, label) ==
    IF P.partition_[vertex] # label
    THEN [P EXCEPT !.partition_[vertex] = label]
    ELSE P

\* Partition::setLabel: writes and invalidates only when the label changes.
setLabel(P, vertex, label) ==
    IF P.partition_[vertex] # label
    THEN invalidateQiCache([P EXCEPT !.partition_[vertex] = label])
    ELSE P

\* The set of labels in use.
UsedLabels(P) == {P.partition_[v] : v \in Vertices(P)}

\* Partition::getNumBlocks: counts the entries of used[MAX_VERTICES] set.
getNumBlocks(P) ==
    Cardinality({i \in UsedLabels(P) : i >= 0 /\ i < MAX_VERTICES})

\* Partition::getBlockVertices: the vertices of a block in index order.
getBlockVertices(P, block_label) ==
    SortedSeq({v \in Vertices(P) : P.partition_[v] = block_label})

\* Partition::mergeBlocks.
mergeBlocks(P, block1, block2) ==
    IF block1 = block2 THEN P
    ELSE invalidateQiCache(
           [P EXCEPT !.partition_ =
              [v \in Vertices(P) |->
                 IF P.partition_[v] = block2 THEN block1 ELSE P.partition_[v]]])

\* Partition::areBlocksConnectedInQuotient (the member function).
PartitionBlocksConnected(P, G, block1, block2) ==
    IF block1 = block2 THEN FALSE
    ELSE \E u \in Vertices(P), v \in Vertices(P) :
           /\ P.partition_[u] = block1
           /\ P.partition_[v] = block2
           /\ <<u, v>> \in G.adjMatrix_

\* ---------------------------------------------------------- quotient graph
RECURSIVE BlockLabelsFrom(_, _, _)
\* The loop "for v: if (!seen[label]) block_labels[label_count++] = label".
BlockLabelsFrom(P, v, block_labels) ==
    IF v >= P.num_vertices_ THEN block_labels
    ELSE LET label == P.partition_[v]
         IN IF \E i \in 1..Len(block_labels) : block_labels[i] = label
            THEN BlockLabelsFrom(P, v + 1, block_labels)
            ELSE BlockLabelsFrom(P, v + 1, Append(block_labels, label))

\* block_labels: the used labels in order of first appearance.
BlockLabels(P) == BlockLabelsFrom(P, 0, <<>>)

\* quotient_adj: the label pairs joined by a graph edge between two
\* different blocks, in both orders.
QuotientAdj(P, G) ==
    UNION {{<<P.partition_[e[1]], P.partition_[e[2]]>>,
            <<P.partition_[e[2]], P.partition_[e[1]]>>} :
           e \in {x \in VertexPairs(P.num_vertices_) :
                    /\ x \in G.adjMatrix_
                    /\ P.partition_[x[1]] # P.partition_[x[2]]}}

\* ------------------------------------------------------ chromatic numbers
IsIndependent(S, qadj) == \A a \in S, b \in S : <<a, b>> \notin qadj

RECURSIVE ChromaticNumber(_, _)
\* chi of the graph (V, qadj): the least number of independent sets that
\* cover V.  Vertices without a neighbour in V fit into any set, so only the
\* others are distributed; the set holding the least of them is chosen
\* first.
ChromaticNumber(V, qadj) ==
    IF V = {} THEN 0
    ELSE LET core == {v \in V : \E w \in V : <<v, w>> \in qadj}
         IN IF core = {} THEN 1
            ELSE LET p == MinOf(core)
                     free == {w \in core \ {p} : <<p, w>> \notin qadj}
                     groups == {{p} \cup J :
                                  J \in {X \in SUBSET free : IsIndependent(X, qadj)}}
                 IN 1 + MinOf({ChromaticNumber(core \ g, qadj) : g \in groups})

\* chi by brute force over all colourings: the least c such that some map
\* V -> 1..c gives different colours to adjacent vertices.
BruteChromaticNumber(V, qadj) ==
    MinOf({c \in 0..Cardinality(V) :
             \E f \in [V -> 1..c] :
                \A a \in V, b \in V : <<a, b>> \in qadj => f[a] # f[b]})

\* The true qi-number of a partition: k - chi(Q).
TrueQi(P, G) ==
    Cardinality(UsedLabels(P)) - ChromaticNumber(UsedLabels(P), QuotientAdj(P, G))

\* ------------------------------------------------------- colouring oracle
\* The external colouring library (GraphColoring::Dsatur): it is handed
\* the quotient graph and either throws or returns a proper colouring with
\* num_colors colours, chi(Q) <= num_colors <= k.
OracleOutcomes(P, G) ==
    {[throws |-> TRUE, num_colors |-> 0]} \cup
    {[throws |-> FALSE, num_colors |-> c] :
       c \in ChromaticNumber(UsedLabels(P), QuotientAdj(P, G))
               .. Cardinality(UsedLabels(P))}

\* ----------------------------------------------------------- exact search
\* Statistics of one search, threaded through the recursion:
\*   max_qi               the int& max_qi of the source,
\*   calls                number of findOptimalQi invocations,
\*   explored             number of subsets whose group was marked and recursed on,
\*   last_explored_max_qi value of max_qi when the latest such subset was taken up,
\*   frame                number of the invocation whose loop is running,
\*   seen                 <<frame, 0, used>> for every invocation: the used array
\*                        it was passed; <<frame, i, used>> for every subset taken
\*                        up: the array as the i-th valid subset found it.
NoSearch ==
    [max_qi |-> 0, calls |-> 0, explored |-> 0, last_explored_max_qi |-> 0 - 1,
     frame |-> 0, seen |-> {}]

\* "if (subset & (1 << bit))".
BitSet(subset, bit) == (subset \div Pow2(bit)) % 2 = 1

RECURSIVE BuildIndependentSet(_, _, _, _, _)
RECURSIVE BuildIndependentSetFirstOnly(_, _, _, _, _)
\* BuildIndependentSet testing a candidate against start_block only.
BuildIndependentSetFirstOnly(quotient_adj, unused_blocks, subset, bit, independent_set) ==
    IF bit >= Len(unused_blocks) THEN [valid_set |-> TRUE, independent_set |-> independent_set]
    ELSE IF BitSet(subset, bit)
         THEN LET candidate == unused_blocks[bit + 1]
              IN IF <<candidate, independent_set[1]>> \in quotient_adj
                 THEN [valid_set |-> FALSE, independent_set |-> independent_set]
                 ELSE BuildIndependentSetFirstOnly(quotient_adj, unused_blocks, subset,
                                                   bit + 1, Append(independent_set, candidate))
         ELSE BuildIndependentSetFirstOnly(quotient_adj, unused_blocks, subset, bit + 1,
                                           independent_set)

\* The loop "for (bit = 0; bit < unused_count && valid_set; bit++)": adds the
\* candidates selected by the mask while they are not adjacent to a block
\* already in independent_set.  Returns [valid_set, independent_set].
BuildIndependentSet(quotient_adj, unused_blocks, subset, bit, independent_set) ==
    IF bit >= Len(unused_blocks) THEN [valid_set |-> TRUE, independent_set |-> independent_set]
    ELSE IF BitSet(subset, bit)
         THEN LET candidate == unused_blocks[bit + 1]
              IN IF \E j \in 1..Len(independent_set) :
                        <<candidate, independent_set[j]>> \in quotient_adj
                 THEN [valid_set |-> FALSE, independent_set |-> independent_set]
                 ELSE BuildIndependentSet(quotient_adj, unused_blocks, subset, bit + 1,
                                          Append(independent_set, candidate))
         ELSE BuildIndependentSet(quotient_adj, unused_blocks, subset, bit + 1, independent_set)

\* The masks of "for (subset = 0; subset < max_subset; subset++)" that pass
\* the validity test, in increasing order.  A mask that selects a block
\* adjacent to start_block fails the test at j = 0, so only masks over the
\* other bits are tried; a mask that fails the test leaves every variable
\* of the search unchanged.
ValidSubsets(quotient_adj, start_block, unused_blocks) ==
    LET free_bits == {b \in 0..(Len(unused_blocks) - 1) :
                        <<unused_blocks[b + 1], start_block>> \notin quotient_adj}
        MaskOf(B) == LET RECURSIVE Sum(_)
                         Sum(X) == IF X = {} THEN 0
                                   ELSE LET b == CHOOSE y \in X : TRUE
                                        IN Pow2(b) + Sum(X \ {b})
                     IN Sum(B)
    IN SortedSeq({m \in {MaskOf(B) : B \in SUBSET free_bits} :
                    BuildIndependentSet(quotient_adj, unused_blocks, m, 0,
                                        <<start_block>>).valid_set})

\* The blocks after first_unused that are not used, in block_labels order.
UnusedBlocks(block_labels, used, first_unused) ==
    LET idx == SortedSeq({i \in (first_unused + 1)..Len(block_labels) :
                            block_labels[i] \notin used})
    IN [i \in 1..Len(idx) |-> block_labels[idx[i]]]

SeqRange(s) == {s[i] : i \in 1..Len(s)}

RECURSIVE findOptimalQi(_, _, _, _, _)
RECURSIVE SubsetLoop(_, _, _, _, _, _, _, _, _)

\* SubsetLoop marking the group in used itself, so that the next subset
\* finds the marks of the previous one.
SubsetLoopShared(block_labels, quotient_adj, used, current_qi, start_block, unused_blocks, subsets, i, st) ==
    IF i > Len(subsets) THEN st
    ELSE LET independent_set ==
                 BuildIndependentSet(quotient_adj, unused_blocks, subsets[i], 0,
                                     <<start_block>>).independent_set
             set_size == Len(independent_set)
             temp_used == used \cup SeqRange(independent_set)
             contribution == IF set_size > 1 THEN set_size - 1 ELSE 0
             st1 == [st EXCEPT !.explored = @ + 1, !.last_explored_max_qi = st.max_qi,
                               !.seen = @ \cup {<<st.frame, i, used>>}]
             st2 == findOptimalQi(block_labels, quotient_adj, temp_used,
                                  current_qi + contribution, st1)
         IN SubsetLoop(block_labels, quotient_adj, temp_used, current_qi, start_block,
                       unused_blocks, subsets, i + 1, [st2 EXCEPT !.frame = st.frame])

\* Body of the subset loop of findOptimalQi (no threshold) for the valid
\* masks subsets[i..]: mark the group in a copy of used, add its
\* contribution, recurse.
SubsetLoop(block_labels, quotient_adj, used, current_qi, start_block, unused_blocks, subsets, i, st) ==
    IF i > Len(subsets) THEN st
    ELSE LET independent_set ==
                 BuildIndependentSet(quotient_adj, unused_blocks, subsets[i], 0,
                                     <<start_block>>).independent_set
             set_size == Len(independent_set)
             temp_used == used \cup SeqRange(independent_set)
             contribution == IF set_size > 1 THEN set_size - 1 ELSE 0
             st1 == [st EXCEPT !.explored = @ + 1, !.last_explored_max_qi = st.max_qi,
                               !.seen = @ \cup {<<st.frame, i, used>>}]
             st2 == findOptimalQi(block_labels, quotient_adj, temp_used,
                                  current_qi + contribution, st1)
         IN SubsetLoop(block_labels, quotient_adj, used, current_qi, start_block,
                       unused_blocks, subsets, i + 1, [st2 EXCEPT !.frame = st.frame])

\* Partition::findOptimalQi (7 parameters; start_idx is never read).  used
\* is the set of labels whose used[] entry is true.
findOptimalQi(block_labels, quotient_adj, used, current_qi, st) ==
    LET unused == {i \in 1..Len(block_labels) : block_labels[i] \notin used}
        st0 == [st EXCEPT !.calls = @ + 1, !.frame = st.calls + 1,
                          !.seen = @ \cup {<<st.calls + 1, 0, used>>}]
    IN IF st.calls < 0 THEN st   \* never true; makes TLC evaluate st before descending
       ELSE IF unused = {}
       THEN IF current_qi > st.max_qi THEN [st0 EXCEPT !.max_qi = current_qi] ELSE st0
       ELSE LET first_unused == MinOf(unused)
                start_block == block_labels[first_unused]
                unused_blocks == UnusedBlocks(block_labels, used, first_unused)
            IN SubsetLoop(block_labels, quotient_adj, used, current_qi, start_block,
                          unused_blocks,
                          ValidSubsets(quotient_adj, start_block, unused_blocks), 1, st0)

RECURSIVE findOptimalQiMin(_, _, _, _, _, _)
RECURSIVE SubsetLoopMin(_, _, _, _, _, _, _, _, _, _)

\* SubsetLoopMin without the early-stopping test at the head of the loop.
SubsetLoopMinNoStop(block_labels, quotient_adj, used, current_qi, start_block, unused_blocks, subsets, i, st, min_required_qi) ==
    IF i > Len(subsets) THEN st
    ELSE LET independent_set ==
                 BuildIndependentSet(quotient_adj, unused_blocks, subsets[i], 0,
                                     <<start_block>>).independent_set
             set_size == Len(independent_set)
             temp_used == used \cup SeqRange(independent_set)
             contribution == IF set_size > 1 THEN set_size - 1 ELSE 0
             st1 == [st EXCEPT !.explored = @ + 1, !.last_explored_max_qi = st.max_qi,
                               !.seen = @ \cup {<<st.frame, i, used>>}]
             st2 == findOptimalQiMin(block_labels, quotient_adj, temp_used,
                                     current_qi + contribution, st1, min_required_qi)
         IN SubsetLoopMin(block_labels, quotient_adj, used, current_qi, start_block,
                          unused_blocks, subsets, i + 1, [st2 EXCEPT !.frame = st.frame],
                          min_required_qi)

\* Body of the subset loop of the early-stopping findOptimalQi: the loop
\* returns as soon as max_qi >= min_required_qi.
SubsetLoopMin(block_labels, quotient_adj, used, current_qi, start_block, unused_blocks, subsets, i, st, min_required_qi) ==
    IF i > Len(subsets) THEN st
    ELSE IF st.max_qi >= min_required_qi THEN st
    ELSE LET independent_set ==
                 BuildIndependentSet(quotient_adj, unused_blocks, subsets[i], 0,
                                     <<start_block>>).independent_set
             set_size == Len(independent_set)
             temp_used == used \cup SeqRange(independent_set)
             contribution == IF set_size > 1 THEN set_size - 1 ELSE 0
             st1 == [st EXCEPT !.explored = @ + 1, !.last_explored_max_qi = st.max_qi,
                               !.seen = @ \cup {<<st.frame, i, used>>}]
             st2 == findOptimalQiMin(block_labels, quotient_adj, temp_used,
                                     current_qi + contribution, st1, min_required_qi)
         IN SubsetLoopMin(block_labels, quotient_adj, used, current_qi, start_block,
                          unused_blocks, subsets, i + 1, [st2 EXCEPT !.frame = st.frame],
                          min_required_qi)

\* findOptimalQiMin stopping one short of min_required_qi.
findOptimalQiMinShort(block_labels, quotient_adj, used, current_qi, st, min_required_qi) ==
    LET unused == {i \in 1..Len(block_labels) : block_labels[i] \notin used}
        st0 == [st EXCEPT !.calls = @ + 1, !.frame = st.calls + 1,
                          !.seen = @ \cup {<<st.calls + 1, 0, used>>}]
    IN IF st.max_qi + 1 >= min_required_qi THEN st0
       ELSE IF unused = {}
       THEN IF current_qi > st.max_qi THEN [st0 EXCEPT !.max_qi = current_qi] ELSE st0
       ELSE LET first_unused == MinOf(unused)
                start_block == block_labels[first_unused]
                unused_blocks == UnusedBlocks(block_labels, used, first_unused)
            IN SubsetLoopMin(block_labels, quotient_adj, used, current_qi, start_block,
                             unused_blocks,
                             ValidSubsets(quotient_adj, start_block, unused_blocks), 1,
                             st0, min_required_qi)

\* Partition::findOptimalQi (8 parameters, early stopping).
findOptimalQiMin(block_labels, quotient_adj, used, current_qi, st, min_required_qi) ==
    LET unused == {i \in 1..Len(block_labels) : block_labels[i] \notin used}
        st0 == [st EXCEPT !.calls = @ + 1, !.frame = st.calls + 1,
                          !.seen = @ \cup {<<st.calls + 1, 0, used>>}]
    IN IF st.max_qi >= min_required_qi THEN st0
       ELSE IF unused = {}
       THEN IF current_qi > st.max_qi THEN [st0 EXCEPT !.max_qi = current_qi] ELSE st0
       ELSE LET first_unused == MinOf(unused)
                start_block == block_labels[first_unused]
                unused_blocks == UnusedBlocks(block_labels, used, first_unused)
            IN SubsetLoopMin(block_labels, quotient_adj, used, current_qi, start_block,
                             unused_blocks,
                             ValidSubsets(quotient_adj, start_block, unused_blocks), 1,
                             st0, min_required_qi)

\* ------------------------------------------------------ qi-number engine
\* The result of a qi computation: the value returned, the oracle's answer
\* (NoOracle when it was not called), how many times it was called, and
\* the statistics of the exact search.
NoOracle == [throws |-> FALSE, num_colors |-> 0]

QiResult(value, oracle, oracle_calls, search) ==
    [value |-> value, oracle |-> oracle, oracle_calls |-> oracle_calls,
     search |-> search]

\* Partition::calculateQiNumberInternalExhaustive.
calculateQiNumberInternalExhaustive(P, G) ==
    LET k == getNumBlocks(P)
    IN IF k = 1 THEN NoSearch
       ELSE findOptimalQi(BlockLabels(P), QuotientAdj(P, G), {}, 0, NoSearch)

\* What the try block around the oracle call gives for one answer of the
\* oracle: k - num_colors, or the exhaustive search when it throws.
ChromaticQi(P, G, k, oracle) ==
    IF ~oracle.throws
    THEN QiResult(k - oracle.num_colors, oracle, 1, NoSearch)
    ELSE LET st == calculateQiNumberInternalExhaustive(P, G)
         IN QiResult(st.max_qi, oracle, 1, st)

\* Partition::calculateQiNumberInternal(const Graph&): the results the call
\* can have, one for every answer of the oracle.
calculateQiNumberInternal(P, G) ==
    LET k == getNumBlocks(P)
    IN IF k = 1 THEN {QiResult(0, NoOracle, 0, NoSearch)}
       ELSE {ChromaticQi(P, G, k, oracle) : oracle \in OracleOutcomes(P, G)}

\* FastQi returning one more than the bound k - num_colors.
FastQiOffByOne(k, min_required_qi, oracle) ==
    IF ~oracle.throws /\ k - oracle.num_colors >= min_required_qi
    THEN QiResult(k - oracle.num_colors + 1, oracle, 1, NoSearch)
    ELSE QiResult(0 - 1, oracle, 1, NoSearch)

\* FastQi accepting the bound only when it exceeds min_required_qi.
FastQiStrict(k, min_required_qi, oracle) ==
    IF ~oracle.throws /\ k - oracle.num_colors > min_required_qi
    THEN QiResult(k - oracle.num_colors, oracle, 1, NoSearch)
    ELSE QiResult(0 - 1, oracle, 1, NoSearch)

\* The "if (k > 15)" branch for one answer of the oracle: the bound
\* k - num_colors when it reaches min_required_qi, else -1.
FastQi(k, min_required_qi, oracle) ==
    IF ~oracle.throws /\ k - oracle.num_colors >= min_required_qi
    THEN QiResult(k - oracle.num_colors, oracle, 1, NoSearch)
    ELSE QiResult(0 - 1, oracle, 1, NoSearch)

\* The early-stopping search at the end of calculateQiNumberInternal(graph,
\* min_required_qi).
EarlyStoppingQi(P, G, min_required_qi) ==
    LET st == findOptimalQiMin(BlockLabels(P), QuotientAdj(P, G), {}, 0,
                               NoSearch, min_required_qi)
    IN QiResult(st.max_qi, NoOracle, 0, st)

\* calculateQiNumberInternalMin without the single-block special case.
calculateQiNumberInternalMinNoSingle(P, G, min_required_qi) ==
    LET k == getNumBlocks(P)
    IN IF k > EXACT_MAX_BLOCKS
       THEN {FastQi(k, min_required_qi, oracle) : oracle \in OracleOutcomes(P, G)}
       ELSE IF min_required_qi <= 0 THEN calculateQiNumberInternal(P, G)
       ELSE {EarlyStoppingQi(P, G, min_required_qi)}

\* Partition::calculateQiNumberInternal(const Graph&, int min_required_qi):
\* the results the call can have.
calculateQiNumberInternalMin(P, G, min_required_qi) ==
    LET k == getNumBlocks(P)
    IN IF k = 1 THEN {QiResult(0, NoOracle, 0, NoSearch)}
       ELSE IF k > EXACT_MAX_BLOCKS
       THEN {FastQi(k, min_required_qi, oracle) : oracle \in OracleOutcomes(P, G)}
       ELSE IF min_required_qi <= 0 THEN calculateQiNumberInternal(P, G)
       ELSE {EarlyStoppingQi(P, G, min_required_qi)}

\* ------------------------------------------------------ merge operations
\* PartitionOperations::areBlocksConnectedInQuotient (Operations.cpp): some
\* vertex of the first block is adjacent to some vertex of the second; the
\* two identifiers are not compared.
areBlocksConnectedInQuotient(P, G, block_id_1, block_id_2) ==
    LET block_1_vertices == getBlockVertices(P, block_id_1)
        block_2_vertices == getBlockVertices(P, block_id_2)
    IN \E i \in 1..Len(block_1_vertices), j \in 1..Len(block_2_vertices) :
         <<block_1_vertices[i], block_2_vertices[j]>> \in G.adjMatrix_

\* Partition::renormalizeLabels: every label is replaced by the rank of its
\* first appearance, so the labels become 0..k-1; the qi cache is
\* invalidated when a label changes.
renormalizeLabels(P) ==
    LET block_labels == BlockLabels(P)
        rank(l) == (CHOOSE i \in 1..Len(block_labels) : block_labels[i] = l) - 1
        relabelled == [v \in Vertices(P) |-> rank(P.partition_[v])]
    IN IF relabelled = P.partition_ THEN P
       ELSE invalidateQiCache([P EXCEPT !.partition_ = relabelled])

\* The interior-edge count Partition::calculateProperties caches: the graph
\* edges whose two ends carry the same label.
InteriorEdgeCount(P, G) ==
    Cardinality({e \in VertexPairs(P.num_vertices_) :
                   e \in G.adjMatrix_ /\ P.partition_[e[1]] = P.partition_[e[2]]})

\* Partition::getInteriorEdgeCount on the partition an operation is handed:
\* it returns the member interior_edges_, which no constructor initialises,
\* copyFrom does not copy and setLabel and mergeBlocks do not update.  The
\* read gives whatever the member holds: the count of the current labels or
\* any other value.
getInteriorEdgeCount(P, G) == UninitInts \cup {InteriorEdgeCount(P, G)}

RECURSIVE MoveVertices(_, _, _, _)
\* "for (int vertex : block_2_vertices) result_partition.setLabel(vertex, block_id_1)".
MoveVertices(P, block_vertices, i, block_id_1) ==
    IF i > Len(block_vertices) THEN P
    ELSE MoveVertices(setLabel(P, block_vertices[i], block_id_1), block_vertices,
                      i + 1, block_id_1)

\* An OperationResult as "OperationResult result; result.success = false;"
\* leaves it: default partition, the int fields not set by the caller
\* hold whatever was there.
FailedResult(block_id_1, block_id_2, garbage) ==
    [success |-> FALSE,
     result_partition |-> DefaultPartition(garbage),
     interior_edge_change |-> garbage,
     affected_block_1 |-> block_id_1,
     affected_block_2 |-> block_id_2,
     moved_vertices |-> <<>>]

\* The part of performMuOperation and performMcOperation after the
\* precondition test: copy, relabel the second block, renormalize,
\* recompute the properties.
MergedResult(P, G, block_id_1, block_id_2, interior_edges) ==
    LET block_2_vertices == getBlockVertices(P, block_id_2)
        merged == renormalizeLabels(MoveVertices(P, block_2_vertices, 1, block_id_1))
    IN [success |-> TRUE,
        result_partition |-> merged,
        interior_edge_change |-> InteriorEdgeCount(merged, G) - interior_edges,
        affected_block_1 |-> block_id_1,
        affected_block_2 |-> block_id_2,
        moved_vertices |-> block_2_vertices]

\* PartitionOperations::performMuOperation.
performMuOperation(P, G, block_id_1, block_id_2, garbage, interior_edges) ==
    IF areBlocksConnectedInQuotient(P, G, block_id_1, block_id_2)
    THEN FailedResult(block_id_1, block_id_2, garbage)
    ELSE MergedResult(P, G, block_id_1, block_id_2, interior_edges)

\* performMcOperation without the test that the blocks are connected.
performMcOperationNoTest(P, G, block_id_1, block_id_2, garbage, interior_edges) ==
    MergedResult(P, G, block_id_1, block_id_2, interior_edges)

\* PartitionOperations::performMcOperation.
performMcOperation(P, G, block_id_1, block_id_2, garbage, interior_edges) ==
    IF ~areBlocksConnectedInQuotient(P, G, block_id_1, block_id_2)
    THEN FailedResult(block_id_1, block_id_2, garbage)
    ELSE MergedResult(P, G, block_id_1, block_id_2, interior_edges)

\* McOperations::performMcOperation: copy, then mergeBlocks.
McPerformMcOperation(P, block1, block2) == mergeBlocks(P, block1, block2)

\* ------------------------------------------------------------------ state
NoQi == QiResult(0, NoOracle, 0, NoSearch)

\* No OperationResult is held.
NoResult == [success |-> FALSE, result_partition |-> DefaultPartition(0),
             interior_edge_change |-> 0, affected_block_1 |-> 0 - 1,
             affected_block_2 |-> 0 - 1, moved_vertices |-> <<>>]

\* The record of the last call: operation, arguments, the partition it was
\* called on, whether the qi value was computed by this call (not served
\* from the cache), and the computation's result.
Call(op, b1, b2, t, before, computed, qi) ==
    [op |-> op, block1 |-> b1, block2 |-> b2, min_required_qi |-> t,
     before |-> before, computed |-> computed, qi |-> qi]

Thresholds == 0..MaxThreshold

\* The state of main: where it is, the step counter, one entry per
\* partition whose qi-number it asked for, what the last call of
\* performRandomMcOperation returned, how it ended, and the highest index
\* at which it wrote into initial_partition[MAX_VERTICES].  NoDriver: main
\* is not running (the operations are called directly).
NoDriver ==
    [pc |-> "off", step |-> 1, history |-> <<>>, next_partition |-> DefaultPartition(0),
     exit |-> "", result_status |-> "", return_code |-> 0, max_label_index |-> 0 - 1]

\* Block identifiers passed to the merge operations: the labels in use and
\* num_vertices, which no block carries.
BlockIds == UsedLabels(partition) \cup {graph.num_vertices}

InitWith(Graphs) ==
    /\ graph \in Graphs
    /\ \E garbage \in UninitInts :
         partition = IdentityPartition(graph.num_vertices, garbage)
    /\ result = NoResult
    /\ call = Call("construct", 0 - 1, 0 - 1, 0, partition, FALSE, NoQi)
    /\ driver = NoDriver

Init == InitWith(SmallGraphs \cup ExampleGraphs)

\* The effect of both calculateQiNumber overloads once the internal
\* computation has returned qi: store the value and mark the cache valid.
StoreQi(op, min_required_qi, qi) ==
    /\ partition' = [partition EXCEPT !.qi_number_ = qi.value, !.qi_calculated_ = TRUE]
    /\ call' = Call(op, 0 - 1, 0 - 1, min_required_qi, partition, TRUE, qi)
    /\ UNCHANGED <<graph, result, driver>>

\* "if (qi_calculated_) return;".
CachedQi(op, min_required_qi) ==
    /\ call' = Call(op, 0 - 1, 0 - 1, min_required_qi, partition, FALSE, NoQi)
    /\ UNCHANGED <<graph, partition, result, driver>>

\* Partition::calculateQiNumber(const Graph&).
CalculateQiNumber ==
    IF partition.qi_calculated_
    THEN CachedQi("calculateQiNumber", 0)
    ELSE \E qi \in calculateQiNumberInternal(partition, graph) :
           StoreQi("calculateQiNumber", 0, qi)

\* Partition::calculateQiNumber(const Graph&, int min_required_qi).
CalculateQiNumberMin ==
    \E min_required_qi \in Thresholds :
      IF partition.qi_calculated_
      THEN CachedQi("calculateQiNumberMin", min_required_qi)
      ELSE \E qi \in calculateQiNumberInternalMin(partition, graph, min_required_qi) :
             StoreQi("calculateQiNumberMin", min_required_qi, qi)

\* The labels the caller passes to McOperations::performMcOperation.
MergeIds == {l \in UsedLabels(partition) : l <= MaxV}

\* The caller holds at most one OperationResult: an operation is started
\* only after the previous result was dropped.
\* current = McOperations::performMcOperation(current, block1, block2).
MergeBlocks ==
    /\ result = NoResult
    /\ \E block1 \in MergeIds, block2 \in MergeIds :
      /\ partition' = McPerformMcOperation(partition, block1, block2)
      /\ call' = Call("mergeBlocks", block1, block2, 0, partition, FALSE, NoQi)
      /\ UNCHANGED <<graph, result, driver>>

\* result = PartitionOperations::performMuOperation(current, graph, b1, b2).
PerformMuOperation ==
    /\ result = NoResult
    /\ \E block_id_1 \in BlockIds, block_id_2 \in BlockIds :
         /\ \E garbage \in IF areBlocksConnectedInQuotient(partition, graph,
                                                           block_id_1, block_id_2)
                           THEN UninitInts ELSE {0},
                 interior_edges \in getInteriorEdgeCount(partition, graph) :
              result' = performMuOperation(partition, graph, block_id_1, block_id_2,
                                           garbage, interior_edges)
         /\ call' = Call("performMuOperation", block_id_1, block_id_2, 0, partition,
                         FALSE, NoQi)
         /\ UNCHANGED <<graph, partition, driver>>

\* result = PartitionOperations::performMcOperation(current, graph, b1, b2).
PerformMcOperation ==
    /\ result = NoResult
    /\ \E block_id_1 \in BlockIds, block_id_2 \in BlockIds :
         /\ \E garbage \in IF areBlocksConnectedInQuotient(partition, graph,
                                                           block_id_1, block_id_2)
                           THEN {0} ELSE UninitInts,
                 interior_edges \in getInteriorEdgeCount(partition, graph) :
              result' = performMcOperation(partition, graph, block_id_1, block_id_2,
                                           garbage, interior_edges)
         /\ call' = Call("performMcOperation", block_id_1, block_id_2, 0, partition,
                         FALSE, NoQi)
         /\ UNCHANGED <<graph, partition, driver>>

\* The caller lets the OperationResult go out of scope.
DropResult ==
    /\ result # NoResult
    /\ result' = NoResult
    /\ call' = Call("dropResult", 0 - 1, 0 - 1, 0, partition, FALSE, NoQi)
    /\ UNCHANGED <<graph, partition, driver>>

\* The qi-number engine on small graphs.
Next ==
    \/ CalculateQiNumber
    \/ CalculateQiNumberMin
    \/ MergeBlocks

Spec == Init /\ [][Next]_vars

\* The operations of PartitionOperations on small graphs.
NextOps ==
    \/ MergeBlocks
    \/ PerformMuOperation
    \/ PerformMcOperation
    \/ DropResult

SpecOps == InitWith(SmallGraphs) /\ [][NextOps]_vars

\* The qi-number engine on large graphs: the partition is the identity
\* after at most two merges of blocks among vertices 0, 1 and the last
\* vertex, so that it has LargeV, LargeV - 1 or LargeV - 2 blocks.
LargeMergeLabels == {0, 1, LargeV - 1}

LargePartitions(garbage) ==
    LET id == IdentityPartition(LargeV, garbage)
        Merges(S) == {McPerformMcOperation(P, b[1], b[2]) :
                        P \in S, b \in LargeMergeLabels \X LargeMergeLabels}
    IN Merges(Merges({id}))

InitLarge ==
    /\ graph \in LargeGraphs
    /\ \E garbage \in UninitInts : partition \in LargePartitions(garbage)
    /\ result = NoResult
    /\ call = Call("construct", 0 - 1, 0 - 1, 0, partition, FALSE, NoQi)
    /\ driver = NoDriver

NextLarge ==
    \/ CalculateQiNumber
    \/ CalculateQiNumberMin

SpecLarge == InitLarge /\ [][NextLarge]_vars

\* ------------------------------------------------------------ qi cache
\* The labels the caller passes to setLabel.
NewLabels == {0, 1}

\* current.setLabel(vertex, label).
SetLabel ==
    \E vertex \in Vertices(partition), label \in NewLabels :
      /\ partition' = setLabel(partition, vertex, label)
      /\ call' = Call("setLabel", vertex, label, 0, partition, FALSE, NoQi)
      /\ UNCHANGED <<graph, result, driver>>

\* Partition saved(current): a copy is kept where a result's partition is.
CopyPartition ==
    /\ result = NoResult
    /\ partition.qi_calculated_
    /\ result' = [NoResult EXCEPT !.result_partition = copyFrom(partition)]
    /\ call' = Call("copy", 0 - 1, 0 - 1, 0, partition, FALSE, NoQi)
    /\ UNCHANGED <<graph, partition, driver>>

\* current = saved, after which saved goes out of scope.
AssignPartition ==
    /\ result # NoResult
    /\ partition' = copyFrom(result.result_partition)
    /\ result' = NoResult
    /\ call' = Call("assign", 0 - 1, 0 - 1, 0, partition, FALSE, NoQi)
    /\ UNCHANGED <<graph, driver>>

\* Construction, copies, label changes and qi computations in any order.
NextCache ==
    \/ CalculateQiNumber
    \/ CalculateQiNumberMin
    \/ MergeBlocks
    \/ SetLabel
    \/ CopyPartition
    \/ AssignPartition

\* The graphs of the cache check have at most CacheV vertices.
CacheV == 2

CacheGraphs ==
    UNION {{LoadedGraph(n, E) : E \in SUBSET VertexPairs(n)} : n \in 1..CacheV}

SpecCache == InitWith(CacheGraphs) /\ [][NextCache]_vars

\* ------------------------------------------------------------ random Mc
\* McOperations::findAllMcOperations: the pairs b1 < b2 of used labels that
\* Partition::areBlocksConnectedInQuotient joins.  The return value is
\* their number; pair number i is written to block1_array[i] and
\* block2_array[i].
findAllMcOperations(P, G) ==
    LET used_labels == {l \in UsedLabels(P) : l >= 0 /\ l < MAX_VERTICES}
    IN {op \in used_labels \X used_labels :
          op[1] < op[2] /\ PartitionBlocksConnected(P, G, op[1], op[2])}

\* What a call of performRandomMcOperation gives.
McOutcome(crashed, block1, block2, P) ==
    [crashed |-> crashed, block1 |-> block1, block2 |-> block2, partition |-> P]

\* McOperations::performRandomMcOperation: every outcome it can have.  With
\* no pair the partition is returned as it is; otherwise rand() picks one
\* of the pairs.  block1_array and block2_array hold MAX_VERTICES entries:
\* with more pairs findAllMcOperations writes past their end, and the call
\* either takes the process down or goes on with a pair of labels read from
\* the overwritten memory.
performRandomMcOperation(P, G) ==
    LET ops == findAllMcOperations(P, G)
    IN IF ops = {} THEN {McOutcome(FALSE, 0 - 1, 0 - 1, P)}
       ELSE IF Cardinality(ops) > MAX_VERTICES
       THEN {McOutcome(TRUE, 0 - 1, 0 - 1, P)} \cup
            {McOutcome(FALSE, b[1], b[2], McPerformMcOperation(P, b[1], b[2])) :
               b \in UsedLabels(P) \X UsedLabels(P)}
       ELSE {McOutcome(FALSE, op[1], op[2], McPerformMcOperation(P, op[1], op[2])) :
               op \in ops}

\* ----------------------------------------------------------------- driver
\* "numBlocks - critical_k + 1", the threshold main passes and compares with.
RequiredQi(P, G) == getNumBlocks(P) - G.critical_k + 1

\* P.calculateQiNumber(graph, min_required_qi) followed by getQiNumber():
\* the partitions the call can leave.
WithQiNumber(P, G, min_required_qi) ==
    IF P.qi_calculated_ THEN {P}
    ELSE {[P EXCEPT !.qi_number_ = qi.value, !.qi_calculated_ = TRUE] :
            qi \in calculateQiNumberInternalMin(P, G, min_required_qi)}

\* What main prints for a step: UNDETERMINED for -1, else ERROR below the
\* requirement and PASS otherwise.
StepReport(qi_number, required_qi) ==
    IF qi_number = 0 - 1 THEN "UNDETERMINED"
    ELSE IF qi_number < required_qi THEN "ERROR"
    ELSE "PASS"

\* The entry main's output gives for a partition whose qi-number it asked for.
Visited(P, required_qi, report) ==
    [num_blocks |-> getNumBlocks(P), qi_number |-> P.qi_number_,
     required_qi |-> required_qi, report |-> report]

\* FinalStatus without the test for -1: the sentinel is compared with the
\* requirement like any value.
FinalStatusNoPartial(P, G) ==
    IF P.qi_number_ >= RequiredQi(P, G) THEN "PASS" ELSE "FAIL"

\* result_status as the final verdict sets it.
FinalStatus(P, G) ==
    IF P.qi_number_ = 0 - 1 THEN "PARTIAL"
    ELSE IF P.qi_number_ >= RequiredQi(P, G) THEN "PASS"
    ELSE "FAIL"

\* main, from the construction of the identity partition to the loop:
\* the initial qi-number is computed and printed, not compared.
DriverInitialQi ==
    /\ driver.pc = "initial"
    /\ \E P \in WithQiNumber(partition, graph, RequiredQi(partition, graph)) :
         /\ partition' = P
         /\ driver' = [driver EXCEPT
                         !.pc = "loop",
                         !.history = <<Visited(P, RequiredQi(partition, graph),
                                               IF P.qi_number_ = 0 - 1
                                               THEN "UNDETERMINED" ELSE "INITIAL")>>]
    /\ call' = Call("initialQi", 0 - 1, 0 - 1, RequiredQi(partition, graph), partition,
                    TRUE, NoQi)
    /\ UNCHANGED <<graph, result>>

\* One iteration of "while (getNumBlocks() > critical_k)": random Mc, break
\* when the block count did not change, else the qi-number of the next
\* partition; "return 1" when it is determined and below the requirement,
\* else the next partition becomes the current one.
DriverStep ==
    /\ driver.pc = "loop"
    /\ getNumBlocks(partition) > graph.critical_k
    /\ \E mc \in performRandomMcOperation(partition, graph) :
         /\ call' = Call("performRandomMcOperation", mc.block1, mc.block2, 0, partition,
                         FALSE, NoQi)
         /\ IF mc.crashed
            THEN /\ driver' = [driver EXCEPT !.pc = "done", !.exit = "crash"]
                 /\ UNCHANGED partition
            ELSE IF getNumBlocks(mc.partition) = getNumBlocks(partition)
            THEN /\ driver' = [driver EXCEPT !.pc = "verdict", !.exit = "break",
                                             !.next_partition = mc.partition]
                 /\ UNCHANGED partition
            ELSE \E next_partition \in
                      WithQiNumber(mc.partition, graph, RequiredQi(mc.partition, graph)) :
                   LET required_qi == RequiredQi(mc.partition, graph)
                       report == StepReport(next_partition.qi_number_, required_qi)
                       entry == Visited(next_partition, required_qi, report)
                   IN IF report = "ERROR"
                      THEN /\ driver' = [driver EXCEPT
                                           !.pc = "done", !.exit = "error",
                                           !.return_code = 1,
                                           !.next_partition = next_partition,
                                           !.history = Append(@, entry)]
                           /\ UNCHANGED partition
                      ELSE /\ driver' = [driver EXCEPT
                                           !.step = @ + 1,
                                           !.next_partition = next_partition,
                                           !.history = Append(@, entry)]
                           /\ partition' = next_partition
    /\ UNCHANGED <<graph, result>>

\* The end of the loop (by its condition or by break) and the final
\* verdict: PARTIAL, PASS or FAIL.
DriverVerdict ==
    /\ \/ driver.pc = "verdict"
       \/ driver.pc = "loop" /\ ~(getNumBlocks(partition) > graph.critical_k)
    /\ LET status == FinalStatus(partition, graph)
       IN driver' = [driver EXCEPT
                       !.pc = "done",
                       !.exit = IF driver.pc = "loop" THEN "target" ELSE @,
                       !.result_status = status,
                       !.return_code = IF status = "FAIL" THEN 1 ELSE 0]
    /\ call' = Call("verdict", 0 - 1, 0 - 1, RequiredQi(partition, graph), partition,
                    FALSE, NoQi)
    /\ UNCHANGED <<graph, partition, result>>

\* Graphs for the driver.  Graph::critical_k is a public member that main
\* only reads: the driver is run for every value 0 .. MaxCriticalK of it
\* (Graph::loadFromFile itself leaves the constructor's 0).
MaxCriticalK == 2

\* Sparse graphs on SparseV vertices: edges among vertices 0, 1, 2 only, so
\* that at most two merges are possible and more than 15 blocks remain.
SparseV == 18

SparseGraphs == {LoadedGraph(SparseV, M) : M \in SUBSET VertexPairs(3)}

\* The complete graph on DenseV vertices: its identity partition has more
\* than MAX_VERTICES quotient-connected pairs of blocks.
DenseV == 15

DenseGraphs == {LoadedGraph(DenseV, VertexPairs(DenseV))}

DriverGraphs ==
    {[G EXCEPT !.critical_k = critical_k] :
       G \in SmallGraphs \cup SparseGraphs \cup DenseGraphs,
       critical_k \in 0..MaxCriticalK}

InitMain ==
    /\ graph \in DriverGraphs
    /\ \E garbage \in UninitInts :
         partition = IdentityPartition(graph.num_vertices, garbage)
    /\ result = NoResult
    /\ call = Call("construct", 0 - 1, 0 - 1, 0, partition, FALSE, NoQi)
    /\ driver = [NoDriver EXCEPT !.pc = "initial",
                                  !.max_label_index = graph.num_vertices - 1]

NextMain ==
    \/ DriverInitialQi
    \/ DriverStep
    \/ DriverVerdict

SpecMain == InitMain /\ [][NextMain]_vars

\* ------------------------------------------------------------------- Sc
RECURSIVE BfsComponent(_, _, _, _, _)
\* The "while (!queue.empty())" loop of findComponentsInBlock: the vertices
\* of the block not yet visited and adjacent to the front of the queue are
\* visited, queued and added to the component, in block order.
BfsComponent(G, block_vertices, queue, visited, component) ==
    IF queue = <<>> THEN [visited |-> visited, component |-> component]
    ELSE LET current == Head(queue)
             found == SelectSeq(block_vertices,
                                LAMBDA v : v \notin visited /\ <<current, v>> \in G.adjMatrix_)
         IN BfsComponent(G, block_vertices, Tail(queue) \o found,
                         visited \cup SeqRange(found), component \o found)

RECURSIVE ComponentsFrom(_, _, _, _, _)
\* The "for (int start_vertex : block_vertices)" loop of findComponentsInBlock.
ComponentsFrom(G, block_vertices, i, visited, components) ==
    IF i > Len(block_vertices) THEN components
    ELSE LET start_vertex == block_vertices[i]
         IN IF start_vertex \in visited
            THEN ComponentsFrom(G, block_vertices, i + 1, visited, components)
            ELSE LET bfs == BfsComponent(G, block_vertices, <<start_vertex>>,
                                         visited \cup {start_vertex}, <<start_vertex>>)
                 IN ComponentsFrom(G, block_vertices, i + 1, bfs.visited,
                                   Append(components, bfs.component))

\* PartitionOperations::findComponentsInBlock: the connected components of
\* the subgraph on the block's vertices, each in breadth-first order, in
\* the order of their least vertices.
findComponentsInBlock(P, G, block_id) ==
    LET block_vertices == getBlockVertices(P, block_id)
    IN IF block_vertices = <<>> THEN <<>>
       ELSE ComponentsFrom(G, block_vertices, 1, {}, <<>>)

RECURSIVE dfs(_, _, _, _)
RECURSIVE DfsLoop(_, _, _, _, _)
\* The loop of the dfs lambda of findLeafVerticesInSpanningTree: st holds
\* comp_visited and spanning_tree, which all invocations share.
DfsLoop(G, component_vertices, u, i, st) ==
    IF i > Len(component_vertices) THEN st
    ELSE LET v == component_vertices[i]
         IN IF v # u /\ v \notin st.comp_visited /\ <<u, v>> \in G.adjMatrix_
            THEN DfsLoop(G, component_vertices, u, i + 1,
                         dfs(G, component_vertices, v,
                             [st EXCEPT !.spanning_tree = @ \cup {<<u, v>>, <<v, u>>}]))
            ELSE DfsLoop(G, component_vertices, u, i + 1, st)

\* The dfs lambda.
dfs(G, component_vertices, u, st) ==
    DfsLoop(G, component_vertices, u, 1, [st EXCEPT !.comp_visited = @ \cup {u}])

\* spanning_tree after "dfs(component_vertices[0])".
SpanningTree(component_vertices, G) ==
    dfs(G, component_vertices, component_vertices[1],
        [comp_visited |-> {}, spanning_tree |-> {}]).spanning_tree

\* The number of tree edges at v, counted over the component's vertices.
TreeDegree(tree, component_vertices, v) ==
    Cardinality({i \in 1..Len(component_vertices) :
                   component_vertices[i] # v /\ <<v, component_vertices[i]>> \in tree})

\* findLeafVerticesInSpanningTree returning every vertex of the tree that
\* has a tree edge, leaf or not.
findLeafVerticesInSpanningTreeAny(component_vertices, G) ==
    IF Len(component_vertices) < 2 THEN component_vertices
    ELSE LET tree == SpanningTree(component_vertices, G)
         IN SelectSeq(component_vertices,
                      LAMBDA v : TreeDegree(tree, component_vertices, v) >= 1)

\* PartitionOperations::findLeafVerticesInSpanningTree.
findLeafVerticesInSpanningTree(component_vertices, G) ==
    IF Len(component_vertices) < 2 THEN component_vertices
    ELSE LET tree == SpanningTree(component_vertices, G)
         IN SelectSeq(component_vertices,
                      LAMBDA v : TreeDegree(tree, component_vertices, v) = 1)

\* The "find splittable component" loop of performScOperation: the first
\* component with at least two vertices whose index is component_index, or
\* the first such component at all when component_index is -1; <<>> if none.
TargetComponent(components, component_index) ==
    LET fit == {i \in 1..Len(components) :
                  /\ Len(components[i]) >= 2
                  /\ (component_index = 0 - 1 \/ i - 1 = component_index)}
    IN IF fit = {} THEN <<>> ELSE components[MinOf(fit)]

\* Partition::getUsedLabels.
getUsedLabels(P) == UsedLabels(P)

\* The result of a successful Sc that moves vertex_to_move.
SplitResult(P, G, block_id, vertex_to_move, interior_edges) ==
    LET new_block_id == MaxOf(getUsedLabels(P)) + 1
        split == setLabel(P, vertex_to_move, new_block_id)
    IN [success |-> TRUE,
        result_partition |-> split,
        interior_edge_change |-> InteriorEdgeCount(split, G) - interior_edges,
        affected_block_1 |-> block_id,
        affected_block_2 |-> 0 - 1,
        moved_vertices |-> <<vertex_to_move>>]

\* PartitionOperations::performScOperation: every result the random choice
\* of the vertex can give.  Without a leaf any vertex of the component may
\* be drawn.
performScOperation(P, G, block_id, component_index, garbage, interior_edges) ==
    LET target_component == TargetComponent(findComponentsInBlock(P, G, block_id),
                                            component_index)
        leaf_vertices == findLeafVerticesInSpanningTree(target_component, G)
        candidates == IF leaf_vertices = <<>> THEN SeqRange(target_component)
                      ELSE SeqRange(leaf_vertices)
    IN IF Len(target_component) < 2
       THEN {[FailedResult(block_id, 0 - 1, garbage) EXCEPT !.interior_edge_change = 0]}
       ELSE {SplitResult(P, G, block_id, vertex_to_move, interior_edges) :
               vertex_to_move \in candidates}

\* ------------------------------------------------------------------- Su
\* Partition::isBlockConnected: whether the block's vertices form one
\* connected subgraph.  few_vertices is its answer for a block of fewer
\* than two vertices.
isBlockConnected(P, G, block_label, few_vertices) ==
    LET block_vertices == getBlockVertices(P, block_label)
    IN IF Len(block_vertices) < 2 THEN few_vertices
       ELSE Len(findComponentsInBlock(P, G, block_label)) = 1

RECURSIVE RelabelComponents(_, _, _, _)
\* The "keep first component, move others" loop of performSuOperation:
\* [partition, moved_vertices] after components comp_idx.. were relabelled
\* with next_block_id, next_block_id + 1, ...
RelabelComponents(st, components, comp_idx, next_block_id) ==
    IF comp_idx > Len(components) THEN st
    ELSE RelabelComponents(
             [partition |-> MoveVertices(st.partition, components[comp_idx], 1, next_block_id),
              moved_vertices |-> st.moved_vertices \o components[comp_idx]],
             components, comp_idx + 1, next_block_id + 1)

\* PartitionOperations::performSuOperation.  interior_edge_change is not
\* assigned on the failure paths.
performSuOperation(P, G, block_id, garbage, few_vertices, interior_edges) ==
    LET components == findComponentsInBlock(P, G, block_id)
        split == RelabelComponents([partition |-> P, moved_vertices |-> <<>>],
                                   components, 2, MaxOf(getUsedLabels(P)) + 1)
    IN IF isBlockConnected(P, G, block_id, few_vertices) \/ Len(components) <= 1
       THEN FailedResult(block_id, 0 - 1, garbage)
       ELSE [success |-> TRUE,
             result_partition |-> split.partition,
             interior_edge_change |-> InteriorEdgeCount(split.partition, G)
                                      - interior_edges,
             affected_block_1 |-> block_id,
             affected_block_2 |-> 0 - 1,
             moved_vertices |-> split.moved_vertices]

\* Graphs with as many vertices as a Partition can hold; their edges lie
\* among the first CapV vertices.
CapV == 2

CapacityGraphs == {LoadedGraph(MAX_VERTICES, E) : E \in SUBSET VertexPairs(CapV)}

\* The block identifiers and component indices the caller passes to
\* performScOperation; -1 is the default component_index.
ScBlockIds == {l \in BlockIds : l <= MaxV \/ l = graph.num_vertices}

ComponentIndices == (0 - 1)..(MaxV - 1)

\* result = PartitionOperations::performScOperation(current, graph, block_id,
\* component_index).
PerformScOperation ==
    /\ result = NoResult
    /\ \E block_id \in ScBlockIds, component_index \in ComponentIndices :
         /\ \E garbage \in UninitInts,
                 interior_edges \in getInteriorEdgeCount(partition, graph) :
              result' \in performScOperation(partition, graph, block_id,
                                             component_index, garbage, interior_edges)
         /\ call' = [op |-> "performScOperation", block_id |-> block_id,
                     component_index |-> component_index, before |-> partition]
         /\ UNCHANGED <<graph, partition, driver>>

\* result = PartitionOperations::performSuOperation(current, graph, block_id).
PerformSuOperation ==
    /\ result = NoResult
    /\ \E block_id \in ScBlockIds, garbage \in UninitInts, few_vertices \in BOOLEAN,
          interior_edges \in getInteriorEdgeCount(partition, graph) :
         /\ result' = performSuOperation(partition, graph, block_id, garbage, few_vertices,
                                         interior_edges)
         /\ call' = [op |-> "performSuOperation", block_id |-> block_id,
                     before |-> partition]
         /\ UNCHANGED <<graph, partition, driver>>

InitSc == InitWith(SmallGraphs \cup CapacityGraphs)

\* Sc and Su on the partitions that merges of the identity partition give.
NextSc ==
    \/ MergeBlocks
    \/ PerformScOperation
    \/ PerformSuOperation
    \/ DropResult

SpecSc == InitSc /\ [][NextSc]_vars

\* ----------------------------------------------------------------- ScMu
\* Partition::getQiNumber.
getQiNumber(P) == P.qi_number_

\* Partition::calculateProperties: the partitions it can leave, one for
\* every qi-number the computation without threshold can return, that is
\* k - num_colors for every colouring the oracle can answer with (the
\* exhaustive search that replaces a throwing oracle gives k - chi, the
\* value for an optimal colouring).
calculateProperties(P, G) ==
    {[P EXCEPT !.qi_number_ = getNumBlocks(P) - oracle.num_colors,
               !.qi_calculated_ = TRUE] :
       oracle \in {o \in OracleOutcomes(P, G) : ~o.throws}}

\* An operation result with the properties of its partition recomputed.
WithProperties(r, G) ==
    {[r EXCEPT !.result_partition = P] : P \in calculateProperties(r.result_partition, G)}

\* Partition::getBlocks: the block labels in increasing order (the keys of
\* the std::map).
getBlocks(P) == SortedSeq(UsedLabels(P))

RECURSIVE SplittableFrom(_, _, _, _, _)
\* The two loops of findSplittableComponents: blocks from position i on,
\* components of block i from position comp_idx on.
SplittableFrom(P, G, blocks, i, comp_idx) ==
    IF i > Len(blocks) THEN <<>>
    ELSE LET components == findComponentsInBlock(P, G, blocks[i])
         IN IF comp_idx > Len(components) THEN SplittableFrom(P, G, blocks, i + 1, 1)
            ELSE (IF Len(components[comp_idx]) >= 2
                  THEN <<[block_id |-> blocks[i],
                          component_vertices |-> components[comp_idx],
                          component_index |-> comp_idx - 1]>>
                  ELSE <<>>)
                 \o SplittableFrom(P, G, blocks, i, comp_idx + 1)

\* PartitionOperations::findSplittableComponents.
findSplittableComponents(P, G) == SplittableFrom(P, G, getBlocks(P), 1, 1)

RECURSIVE ScOperationsFrom(_, _, _, _, _)
\* The loop of findAllScOperations from component i on: every list of
\* results the random choices of performScOperation can give.  Every call
\* reads the interior-edge count of the same partition object.
ScOperationsFrom(P, G, components, i, interior_edges) ==
    IF i > Len(components) THEN {<<>>}
    ELSE LET results == UNION {WithProperties(r, G) :
                                 r \in performScOperation(P, G, components[i].block_id,
                                                          components[i].component_index, 0,
                                                          interior_edges)}
             rest == ScOperationsFrom(P, G, components, i + 1, interior_edges)
         IN {(IF r.success THEN <<r>> ELSE <<>>) \o tail : r \in results, tail \in rest}

\* PartitionOperations::findAllScOperations: the lists it can return.
findAllScOperations(P, G, interior_edges) ==
    ScOperationsFrom(P, G, findSplittableComponents(P, G), 1, interior_edges)

\* PartitionOperations::findQiPairs: the pairs of blocks that are not
\* connected in the quotient graph.
findQiPairs(P, G) ==
    {b \in UsedLabels(P) \X UsedLabels(P) :
       b[1] < b[2] /\ ~areBlocksConnectedInQuotient(P, G, b[1], b[2])}

RECURSIVE BestCandidate(_, _, _, _, _)
\* The "for (candidate : qi2_candidates)" loop of selectOptimalScOperation.
BestCandidate(qi2_candidates, G, i, best_candidate, max_qi_pairs) ==
    IF i > Len(qi2_candidates) THEN best_candidate
    ELSE LET qi_pairs_count == Cardinality(findQiPairs(qi2_candidates[i].result_partition, G))
         IN IF qi_pairs_count > max_qi_pairs
            THEN BestCandidate(qi2_candidates, G, i + 1, qi2_candidates[i], qi_pairs_count)
            ELSE BestCandidate(qi2_candidates, G, i + 1, best_candidate, max_qi_pairs)

\* selectOptimalScOperation taking the first candidate with qi-number 2.
selectOptimalScOperationFirst(sc_options, G, garbage) ==
    LET qi2_candidates ==
            SelectSeq(sc_options, LAMBDA o : getQiNumber(o.result_partition) = 2)
        other_candidates ==
            SelectSeq(sc_options, LAMBDA o : /\ getQiNumber(o.result_partition) # 2
                                             /\ getQiNumber(o.result_partition) > 0)
    IN IF sc_options = <<>> THEN FailedResult(garbage, garbage, garbage)
       ELSE IF Len(sc_options) = 1 THEN sc_options[1]
       ELSE IF qi2_candidates # <<>> THEN qi2_candidates[1]
       ELSE IF other_candidates # <<>> THEN other_candidates[1]
       ELSE sc_options[1]

\* PartitionOperations::selectOptimalScOperation.
selectOptimalScOperation(sc_options, G, garbage) ==
    LET qi2_candidates ==
            SelectSeq(sc_options, LAMBDA o : getQiNumber(o.result_partition) = 2)
        other_candidates ==
            SelectSeq(sc_options, LAMBDA o : /\ getQiNumber(o.result_partition) # 2
                                             /\ getQiNumber(o.result_partition) > 0)
    IN IF sc_options = <<>> THEN FailedResult(garbage, garbage, garbage)
       ELSE IF Len(sc_options) = 1 THEN sc_options[1]
       ELSE IF qi2_candidates # <<>>
       THEN BestCandidate(qi2_candidates, G, 1, qi2_candidates[1],
                          Cardinality(findQiPairs(qi2_candidates[1].result_partition, G)))
       ELSE IF other_candidates # <<>> THEN other_candidates[1]
       ELSE sc_options[1]

\* Graphs for the candidate selection: ScMuV vertices, the edges 0-1 and
\* 2-3 (two components that can be split) and any of the edges 0-3, 1-3
\* and 1-(ScMuV - 1).
ScMuV == 6

ScMuGraphs ==
    {LoadedGraph(ScMuV, {<<0, 1>>, <<2, 3>>} \cup M) :
       M \in SUBSET {<<0, 3>>, <<1, 3>>, <<1, ScMuV - 1>>}}

\* The first half of performScMuOperation: the candidates are enumerated
\* and, unless there is none, one of them is selected.
ScMuSelect ==
    /\ result = NoResult
    /\ \E interior_edges \in getInteriorEdgeCount(partition, graph),
          garbage \in UninitInts :
       \E sc_options \in findAllScOperations(partition, graph, interior_edges) :
         /\ result' = IF sc_options = <<>> THEN FailedResult(garbage, garbage, garbage)
                      ELSE selectOptimalScOperation(sc_options, graph, garbage)
         /\ call' = [op |-> "selectOptimalScOperation", sc_options |-> sc_options,
                     before |-> partition]
         /\ UNCHANGED <<graph, partition, driver>>

InitScMu == InitWith(SmallGraphs \cup ScMuGraphs)

NextScMu ==
    \/ MergeBlocks
    \/ ScMuSelect
    \/ DropResult

SpecScMu == InitScMu /\ [][NextScMu]_vars

\* ------------------------------------------------------- loading a graph
\* Graph::loadFromFile rejects vertex counts above this.
MAX_FILE_VERTICES == 99999

\* Graph::Graph().
NewGraph == [num_vertices |-> 0, adjMatrix_ |-> {}, critical_k |-> 0]

\* Graph::init: an all-zero matrix for the given number of vertices.
init(G, vertices) == [G EXCEPT !.num_vertices = vertices, !.adjMatrix_ = {}]

RECURSIVE ReadEdges(_, _, _)
\* "while (file >> src >> dest)": an edge line within range and not a
\* self-loop is added, any other is ignored with a warning.
ReadEdges(G, lines, i) ==
    IF i > Len(lines) THEN G
    ELSE LET src == lines[i][1]
             dest == lines[i][2]
             n == G.num_vertices
         IN IF src >= 0 /\ src < n /\ dest >= 0 /\ dest < n /\ src # dest
            THEN ReadEdges([G EXCEPT !.adjMatrix_ = addEdge(@, src, dest)], lines, i + 1)
            ELSE ReadEdges(G, lines, i + 1)

\* Graph::loadFromFile: the return value and the graph afterwards.  A file
\* is [is_open, n, lines]: whether it could be opened, the vertex count it
\* starts with and its edge lines.
loadFromFile(G, file) ==
    IF ~file.is_open THEN [ok |-> FALSE, graph |-> G]
    ELSE IF file.n <= 0 \/ file.n > MAX_FILE_VERTICES THEN [ok |-> FALSE, graph |-> G]
    ELSE [ok |-> TRUE, graph |-> ReadEdges(init(G, file.n), file.lines, 1)]

\* Files: vertex counts around every limit the code tests, and up to
\* MaxLines edge lines whose numbers lie in and just outside the range.
MaxLines == 2

VertexCounts ==
    {0 - 1, 0} \cup (1..MaxV) \cup {MAX_VERTICES, MAX_VERTICES + 1, MAX_FILE_VERTICES + 1}

EdgeTokens(n) == {0 - 1, 0, 1, n - 1, n}

EdgeLines(n) ==
    UNION {[1..len -> EdgeTokens(n) \X EdgeTokens(n)] : len \in 0..MaxLines}

Files ==
    {[is_open |-> FALSE, n |-> 0, lines |-> <<>>]} \cup
    UNION {{[is_open |-> TRUE, n |-> n, lines |-> lines] : lines \in EdgeLines(n)} :
           n \in VertexCounts}

\* main up to "Loaded graph with ...": the file named on the command line
\* is loaded; main returns 1 when loading fails.  target_k is the target
\* block count the run is meant for; loadFromFile has no way to receive it.
LoadFromFile ==
    /\ driver.pc = "load"
    /\ \E file \in Files, target_k \in 1..MaxCriticalK :
         LET loaded == loadFromFile(graph, file)
         IN /\ graph' = loaded.graph
            /\ call' = [op |-> "loadFromFile", file |-> file, target_k |-> target_k,
                        ok |-> loaded.ok]
            /\ driver' = IF loaded.ok
                         THEN [driver EXCEPT !.pc = "construct"]
                         ELSE [driver EXCEPT !.pc = "done", !.exit = "load failed",
                                             !.return_code = 1]
    /\ UNCHANGED <<partition, result>>

\* main, "Create initial partition": initial_partition[i] = i is written
\* for every i < num_vertices into an array of MAX_VERTICES entries, then
\* the Partition is constructed from it; the constructor's assert on
\* num_vertices comes after the loop.  With more than MAX_VERTICES vertices
\* the loop has written past the array; the process then ends in the
\* failed assert or, where asserts are compiled out, in the copy that
\* overruns partition_.
MainConstruct ==
    /\ driver.pc = "construct"
    /\ IF graph.num_vertices <= MAX_VERTICES
       THEN /\ \E garbage \in UninitInts :
                 partition' = IdentityPartition(graph.num_vertices, garbage)
            /\ driver' = [driver EXCEPT !.pc = "initial",
                                        !.max_label_index = graph.num_vertices - 1]
       ELSE /\ \E exit \in {"abort", "crash"} :
                 driver' = [driver EXCEPT !.pc = "done", !.exit = exit,
                                          !.max_label_index = graph.num_vertices - 1]
            /\ UNCHANGED partition
    /\ call' = [op |-> "construct", file |-> call.file, target_k |-> call.target_k,
                ok |-> TRUE]
    /\ UNCHANGED <<graph, result>>

InitLoad ==
    /\ graph = NewGraph
    /\ partition = DefaultPartition(0)
    /\ result = NoResult
    /\ call = Call("start", 0 - 1, 0 - 1, 0, partition, FALSE, NoQi)
    /\ driver = [NoDriver EXCEPT !.pc = "load"]

NextLoad ==
    \/ LoadFromFile
    \/ MainConstruct

SpecLoad == InitLoad /\ [][NextLoad]_vars

\* ================================================================= claims
\* The last call computed a qi value (it was not served from the cache).
ComputedBy(op) == call.op = op /\ call.computed

\* k and the quotient graph of the partition the last call was made on.
CallBlocks == getNumBlocks(call.before)

\* k - chi(Q) with chi found by brute force over all colourings.
BruteQi(P, G) ==
    Cardinality(UsedLabels(P)) - BruteChromaticNumber(UsedLabels(P), QuotientAdj(P, G))

RECURSIVE SumOver(_, _)
SumOver(S, f) ==
    IF S = {} THEN 0
    ELSE LET x == CHOOSE y \in S : TRUE IN f[x] + SumOver(S \ {x}, f)

\* max of sum(max(|G_i| - 1, 0)) over all partitions of V into independent
\* sets G_1, .., G_m (a partition is given as a map from V to group numbers).
MaxIndependentPartitionScore(V, qadj) ==
    LET groupings == {f \in [V -> 1..Cardinality(V)] :
                        \A a \in V, b \in V : f[a] = f[b] => <<a, b>> \notin qadj}
        score(f) == LET size == [g \in 1..Cardinality(V) |->
                                   Cardinality({a \in V : f[a] = g})]
                    IN SumOver(1..Cardinality(V),
                               [g \in 1..Cardinality(V) |->
                                  IF size[g] > 1 THEN size[g] - 1 ELSE 0])
    IN MaxOf({score(f) : f \in groupings})

\* C1: whenever calculateQiNumber(graph, minRequiredQi) computes a value v
\* that is not -1 and v >= minRequiredQi, v is at most the true qi-number
\* k - chi(Q): a PASS is never claimed for a partition that fails.
C1_PassIsSound ==
    (/\ ComputedBy("calculateQiNumberMin")
     /\ partition.qi_number_ # 0 - 1
     /\ partition.qi_number_ >= call.min_required_qi)
    => partition.qi_number_ <= TrueQi(call.before, graph)

\* C1 witness: on the DSATUR path a bound strictly below the true
\* qi-number was returned because it already met a threshold >= 1.
C1_Witness ==
    /\ ComputedBy("calculateQiNumberMin")
    /\ CallBlocks > EXACT_MAX_BLOCKS
    /\ call.min_required_qi >= 1
    /\ partition.qi_number_ >= call.min_required_qi
    /\ partition.qi_number_ < TrueQi(call.before, graph)

\* C2 (as claimed): calculateQiNumber(graph) without a threshold always
\* stores the exact qi-number k - chi(Q), whatever the oracle returns.
C2_NoThresholdIsExact ==
    ComputedBy("calculateQiNumber")
    => partition.qi_number_ = BruteQi(call.before, graph)

\* C3: on the exact path (k <= 15) a threshold <= the true qi-number gives a
\* value >= the threshold, and a threshold > the true qi-number gives
\* exactly the true qi-number.
C3_EarlyStoppingProperty ==
    (ComputedBy("calculateQiNumberMin") /\ CallBlocks <= EXACT_MAX_BLOCKS)
    => LET true_qi == BruteQi(call.before, graph)
       IN IF call.min_required_qi <= true_qi
          THEN partition.qi_number_ >= call.min_required_qi
          ELSE partition.qi_number_ = true_qi

\* C3 witness: the early-stopping search ran with a threshold >= 1 that
\* the true qi-number exceeds, and it returned at least the threshold.
C3_Witness ==
    /\ ComputedBy("calculateQiNumberMin")
    /\ call.qi.search.explored > 0
    /\ call.min_required_qi >= 1
    /\ call.min_required_qi < BruteQi(call.before, graph)
    /\ partition.qi_number_ >= call.min_required_qi

\* C3 second witness: the threshold exceeded the true qi-number and the
\* search completed with the true value.
C3_WitnessAbove ==
    /\ ComputedBy("calculateQiNumberMin")
    /\ call.qi.search.explored > 0
    /\ call.min_required_qi > BruteQi(call.before, graph)
    /\ partition.qi_number_ = BruteQi(call.before, graph)
    /\ partition.qi_number_ >= 1

\* The last call ran the exhaustive search (the oracle threw).
RanExhaustive ==
    /\ call.computed
    /\ call.qi.oracle_calls = 1
    /\ call.qi.oracle.throws

\* C4: the exhaustive backtracking search returns the maximum of
\* sum(max(|G_i| - 1, 0)) over all partitions of the blocks into independent
\* sets, which equals k - chi(Q) with chi found by brute force.
C4_ExhaustiveIsExact ==
    RanExhaustive
    => /\ call.qi.search.max_qi = partition.qi_number_
       /\ partition.qi_number_ =
            MaxIndependentPartitionScore(UsedLabels(call.before),
                                         QuotientAdj(call.before, graph))
       /\ partition.qi_number_ = BruteQi(call.before, graph)

\* C4 witness: the identity partition of the 4-cycle, searched
\* exhaustively, has qi-number 2.
C4_Witness ==
    /\ RanExhaustive
    /\ graph = Cycle4
    /\ call.before.partition_ = [v \in 0..3 |-> v]
    /\ call.qi.search.calls > 1
    /\ partition.qi_number_ = 2

\* C5: for a partition with exactly one block both calculateQiNumber
\* overloads yield 0 without running the search or calling the oracle, and
\* a valid cache of a one-block partition holds 0.
C5_SingleBlockIsZero ==
    /\ ((call.computed /\ CallBlocks = 1)
        => /\ partition.qi_number_ = 0
           /\ call.qi.oracle_calls = 0
           /\ call.qi.search.calls = 0)
    /\ ((partition.qi_calculated_ /\ getNumBlocks(partition) = 1)
        => partition.qi_number_ = 0)

\* C5 witness: a threshold >= 1 was asked of a partition whose vertices
\* (at least two) were merged into one block.
C5_Witness ==
    /\ ComputedBy("calculateQiNumberMin")
    /\ call.min_required_qi >= 1
    /\ CallBlocks = 1
    /\ partition.num_vertices_ >= 2
    /\ partition.qi_number_ = 0

\* The last call ran the early-stopping exact search.
RanEarlyStopping ==
    /\ ComputedBy("calculateQiNumberMin")
    /\ call.min_required_qi >= 1
    /\ CallBlocks > 1
    /\ CallBlocks <= EXACT_MAX_BLOCKS

\* C6: when the early-stopping search with minRequiredQi >= 1 reaches the
\* threshold, no subset is taken up afterwards at any level and the value
\* returned is exactly minRequiredQi.
C6_AbortsAtThreshold ==
    (RanEarlyStopping /\ call.qi.search.max_qi >= call.min_required_qi)
    => /\ partition.qi_number_ = call.min_required_qi
       /\ call.qi.search.last_explored_max_qi < call.min_required_qi

\* C6 witness: the search stopped at the threshold although the true
\* qi-number is larger.
C6_Witness ==
    /\ RanEarlyStopping
    /\ partition.qi_number_ = call.min_required_qi
    /\ call.qi.search.explored > 1
    /\ BruteQi(call.before, graph) > call.min_required_qi

\* C7: with more than 15 blocks and an oracle answer of c colours,
\* calculateQiNumber(graph, minRequiredQi) returns k - c when
\* k - c >= minRequiredQi and -1 otherwise, and never runs the exact search.
C7_HeuristicPath ==
    (ComputedBy("calculateQiNumberMin") /\ CallBlocks > EXACT_MAX_BLOCKS)
    => /\ call.qi.search.calls = 0
       /\ call.qi.oracle_calls = 1
       /\ ~call.qi.oracle.throws
            => partition.qi_number_ =
                 IF CallBlocks - call.qi.oracle.num_colors >= call.min_required_qi
                 THEN CallBlocks - call.qi.oracle.num_colors
                 ELSE 0 - 1

\* C7 witness: the oracle's bound fell short of a threshold that the true
\* qi-number meets, and -1 was returned.
C7_Witness ==
    /\ ComputedBy("calculateQiNumberMin")
    /\ CallBlocks > EXACT_MAX_BLOCKS
    /\ ~call.qi.oracle.throws
    /\ CallBlocks - call.qi.oracle.num_colors < call.min_required_qi
    /\ call.min_required_qi <= TrueQi(call.before, graph)
    /\ partition.qi_number_ = 0 - 1

\* C7 second witness: the bound equals the threshold and is returned.
C7_WitnessMet ==
    /\ ComputedBy("calculateQiNumberMin")
    /\ CallBlocks > EXACT_MAX_BLOCKS
    /\ call.min_required_qi >= 1
    /\ partition.qi_number_ = call.min_required_qi

\* Some graph edge joins a vertex labelled b1 and a vertex labelled b2.
CrossingEdge(P, G, b1, b2) ==
    \E e \in G.adjMatrix_ : P.partition_[e[1]] = b1 /\ P.partition_[e[2]] = b2

\* Two partitions are equal: same vertices, same label on every vertex.
SamePartition(P, Q) ==
    P.num_vertices_ = Q.num_vertices_ /\ P.partition_ = Q.partition_

\* C8 (as claimed): performMuOperation on two blocks with a crossing edge
\* returns success=false, the partition in the result equals the caller's
\* partition, and the caller's partition is unchanged.
C8_MuFailureKeepsPartition ==
    (/\ call.op = "performMuOperation"
     /\ CrossingEdge(call.before, graph, call.block1, call.block2))
    => /\ ~result.success
       /\ SamePartition(result.result_partition, call.before)
       /\ partition = call.before

\* C9: performMcOperation on two block identifiers with no crossing edge
\* returns success=false.
C9_McFailsWithoutCrossingEdge ==
    (/\ call.op = "performMcOperation"
     /\ ~CrossingEdge(call.before, graph, call.block1, call.block2))
    => ~result.success

\* C9 witness: Mc was refused for two different existing blocks.
C9_Witness ==
    /\ call.op = "performMcOperation"
    /\ call.block1 # call.block2
    /\ {call.block1, call.block2} \subseteq UsedLabels(call.before)
    /\ ~CrossingEdge(call.before, graph, call.block1, call.block2)
    /\ ~result.success

\* C10 (as claimed): every successful performMcOperation or
\* performMuOperation, whatever identifiers were passed, returns a partition
\* over the same vertices with exactly one block fewer.
C10_MergeRemovesOneBlock ==
    (/\ call.op \in {"performMuOperation", "performMcOperation"}
     /\ result.success)
    => /\ result.result_partition.num_vertices_ = call.before.num_vertices_
       /\ DOMAIN result.result_partition.partition_ = Vertices(call.before)
       /\ getNumBlocks(result.result_partition) = getNumBlocks(call.before) - 1

\* The labels of a partition are exactly 0 .. k-1.
IsRenormalized(P) == UsedLabels(P) = 0..(getNumBlocks(P) - 1)

\* C11 (as claimed): every partition produced by a successful merge is
\* renormalized, its labels being exactly 0 .. k-1: the result of a
\* successful performMuOperation or performMcOperation, and the partition
\* McOperations::performMcOperation returns for a pair block1 < block2 of
\* quotient-connected blocks, as performRandomMcOperation passes them.
C11_MergeResultIsRenormalized ==
    /\ ((/\ call.op \in {"performMuOperation", "performMcOperation"}
         /\ result.success)
        => IsRenormalized(result.result_partition))
    /\ ((/\ call.op = "mergeBlocks"
         /\ call.block1 < call.block2
         /\ PartitionBlocksConnected(call.before, graph, call.block1, call.block2))
        => IsRenormalized(partition))

\* The partition the last call of performRandomMcOperation returned.
ReturnedByRandomMc == driver.next_partition

\* Q is P with the blocks b1 and b2 made one block and nothing else changed.
MergesPair(P, Q, b1, b2) ==
    /\ Q.num_vertices_ = P.num_vertices_
    /\ getNumBlocks(Q) = getNumBlocks(P) - 1
    /\ \A v \in Vertices(P) :
         P.partition_[v] \notin {b1, b2} => Q.partition_[v] = P.partition_[v]
    /\ \A u \in Vertices(P), v \in Vertices(P) :
         (P.partition_[u] \in {b1, b2} /\ P.partition_[v] \in {b1, b2})
         => Q.partition_[u] = Q.partition_[v]

\* C12 (as claimed): performRandomMcOperation returns the labels of its
\* input exactly when the input has no pair of quotient-connected blocks;
\* otherwise, whatever the random choice, it returns the input with one
\* pair of different quotient-connected blocks merged: one block fewer,
\* every other vertex keeping its label.
C12_RandomMcMergesOneConnectedPair ==
    call.op = "performRandomMcOperation"
    => /\ driver.exit # "crash"
       /\ IF findAllMcOperations(call.before, graph) = {}
          THEN ReturnedByRandomMc.partition_ = call.before.partition_
          ELSE \E b1 \in UsedLabels(call.before), b2 \in UsedLabels(call.before) :
                 /\ b1 # b2
                 /\ PartitionBlocksConnected(call.before, graph, b1, b2)
                 /\ MergesPair(call.before, ReturnedByRandomMc, b1, b2)

RECURSIVE ReachableFrom(_, _)
\* The vertices joined to a vertex of S by a path of G.
ReachableFrom(G, S) ==
    LET T == S \cup {v \in 0..(G.num_vertices - 1) : \E u \in S : <<u, v>> \in G.adjMatrix_}
    IN IF T = S THEN S ELSE ReachableFrom(G, T)

IsConnectedGraph(G) == ReachableFrom(G, {0}) = 0..(G.num_vertices - 1)

\* The partitions of the run whose qi-number is determined.
Determined == {i \in DOMAIN driver.history : driver.history[i].qi_number # 0 - 1}

\* The pass condition qiNumber >= numBlocks - critical_k + 1 for an entry.
PassCondition(entry) == entry.qi_number >= entry.num_blocks - graph.critical_k + 1

\* C13 (as claimed): on a connected graph with critical_k = 1 every
\* partition of the run whose qi-number is determined satisfies
\* qiNumber >= numBlocks - critical_k + 1.
C13_PassConditionHolds ==
    (IsConnectedGraph(graph) /\ graph.critical_k = 1)
    => \A i \in Determined : PassCondition(driver.history[i])

\* C14 (as claimed): every iteration that continues takes exactly one block
\* away, the block count never drops below critical_k, the loop ends only
\* with numBlocks = critical_k or with no quotient-connected pair left, and
\* on a connected graph with critical_k = 1 it ends with one block.
C14_LoopEndsAtTargetOrStall ==
    /\ \A i \in DOMAIN driver.history :
         i > 1 => driver.history[i].num_blocks = driver.history[i - 1].num_blocks - 1
    /\ \A i \in DOMAIN driver.history :
         driver.history[1].num_blocks >= graph.critical_k
         => driver.history[i].num_blocks >= graph.critical_k
    /\ driver.pc = "done"
       => \/ getNumBlocks(partition) = graph.critical_k
          \/ findAllMcOperations(partition, graph) = {}
    /\ (driver.pc = "done" /\ IsConnectedGraph(graph) /\ graph.critical_k = 1)
       => getNumBlocks(partition) = 1

\* C15 (as claimed): a run in which some visited partition, the initial
\* identity partition included, has a determined qi-number below its
\* requirement fails: it does not end with result PASS.
C15_PassOnlyIfEveryStepPassed ==
    (/\ driver.pc = "done"
     /\ driver.exit # "crash"
     /\ \E i \in Determined : ~PassCondition(driver.history[i]))
    => /\ driver.result_status # "PASS"
       /\ driver.return_code = 1

\* C16: an undetermined qi-number is a third outcome.  A step whose
\* qi-number is -1 is reported as UNDETERMINED, not as PASS or ERROR, and
\* the loop goes on with its partition; a final partition whose qi-number
\* is -1 gives the result PARTIAL.
C16_UndeterminedIsThirdOutcome ==
    /\ \A i \in DOMAIN driver.history :
         driver.history[i].qi_number = 0 - 1 => driver.history[i].report = "UNDETERMINED"
    /\ (/\ call.op = "performRandomMcOperation"
        /\ driver.exit = ""
        /\ driver.history[Len(driver.history)].qi_number = 0 - 1)
       => /\ driver.pc = "loop"
          /\ partition = driver.next_partition
    /\ (/\ driver.pc = "done"
        /\ driver.exit \in {"break", "target"}
        /\ partition.qi_number_ = 0 - 1)
       => driver.result_status = "PARTIAL"

\* C16 witness: a run with two undetermined steps that ended PARTIAL.
C16_Witness ==
    /\ driver.pc = "done"
    /\ driver.result_status = "PARTIAL"
    /\ Len(driver.history) = 3
    /\ driver.history[2].report = "UNDETERMINED"
    /\ driver.history[3].report = "UNDETERMINED"
    /\ partition.qi_number_ = 0 - 1

\* C17 (as claimed): with more than MAX_VERTICES vertices the program
\* aborts before any element beyond index MAX_VERTICES - 1 of a
\* fixed-capacity label array is read or written.
C17_AbortBeforeCapacityExceeded ==
    /\ driver.max_label_index <= MAX_VERTICES - 1
    /\ (driver.pc \notin {"load", "construct"} /\ graph.num_vertices > MAX_VERTICES)
       => driver.exit = "abort"

\* C18 (as claimed): after a successful loadFromFile the graph has more
\* than 0 vertices, hasEdge is symmetric, no vertex has an edge to itself,
\* and critical_k is the target block count supplied for the run.
C18_LoaderPostcondition ==
    (call.op = "loadFromFile" /\ call.ok)
    => /\ graph.num_vertices > 0
       /\ \A e \in graph.adjMatrix_ :
            /\ e[1] # e[2]
            /\ hasEdge(graph, e[2], e[1])
            /\ {e[1], e[2]} \subseteq 0..(graph.num_vertices - 1)
       /\ graph.critical_k = call.target_k

\* C19 (as claimed): for a partition with at most 16 blocks and any
\* threshold, calculateQiNumber(graph, minRequiredQi) never returns -1 and,
\* for a threshold >= 1, does not consult the colouring oracle.
C19_ExactPathUpTo16 ==
    (ComputedBy("calculateQiNumberMin") /\ CallBlocks <= ANNOUNCED_EXACT_MAX_BLOCKS)
    => /\ partition.qi_number_ # 0 - 1
       /\ call.min_required_qi >= 1 => call.qi.oracle_calls = 0

RECURSIVE ClosureIn(_, _, _)
\* The vertices of B joined to a vertex of S by a path of G inside B.
ClosureIn(G, B, S) ==
    LET T == S \cup {v \in B : \E u \in S : <<u, v>> \in G.adjMatrix_}
    IN IF T = S THEN S ELSE ClosureIn(G, B, T)

\* The intra-block connected components of a block, as vertex sets.
BlockComponents(P, G, block_id) ==
    LET B == {v \in Vertices(P) : P.partition_[v] = block_id}
    IN {ClosureIn(G, B, {v}) : v \in B}

\* The position of a component when components are listed by least vertex.
ComponentPosition(components, C) ==
    Cardinality({D \in components : MinOf(D) < MinOf(C)})

\* The components of size >= 2 a call may split: every one of them without
\* a component_index, the one at component_index otherwise.
Splittable(P, G, block_id, component_index) ==
    LET components == BlockComponents(P, G, block_id)
    IN {C \in components :
          /\ Cardinality(C) >= 2
          /\ (component_index = 0 - 1
              \/ ComponentPosition(components, C) = component_index)}

\* tree is a spanning tree of the subgraph of G on C.
IsSpanningTree(G, C, tree) ==
    /\ tree \subseteq G.adjMatrix_ \cap (C \X C)
    /\ \A e \in tree : <<e[2], e[1]>> \in tree
    /\ Cardinality(tree) = 2 * (Cardinality(C) - 1)
    /\ \A v \in C : ClosureIn([adjMatrix_ |-> tree], C, {v}) = C

\* The vertices whose label the returned partition changes.
ScMoved == {v \in Vertices(call.before) :
              result.result_partition.partition_[v] # call.before.partition_[v]}

\* The component the call splits, in the order findComponentsInBlock gives.
ScChosen ==
    TargetComponent(findComponentsInBlock(call.before, graph, call.block_id),
                    call.component_index)

\* The moved vertex is a leaf of the DFS spanning tree of its component.
ScMovesLeaf ==
    LET tree == SpanningTree(ScChosen, graph)
    IN /\ IsSpanningTree(graph, SeqRange(ScChosen), tree)
       /\ SeqRange(ScChosen) \in Splittable(call.before, graph, call.block_id,
                                            call.component_index)
       /\ \A v \in ScMoved :
            /\ v \in SeqRange(ScChosen)
            /\ Cardinality({w \in Vertices(call.before) : <<v, w>> \in tree}) = 1

\* Exactly one vertex changes its label, to the maximum used label + 1.
ScRelabelsOne ==
    /\ result.result_partition.num_vertices_ = call.before.num_vertices_
    /\ Cardinality(ScMoved) = 1
    /\ \A v \in ScMoved :
         result.result_partition.partition_[v] = MaxOf(UsedLabels(call.before)) + 1

\* C20 (as claimed): performScOperation succeeds exactly when the block has
\* an intra-block component of size >= 2 (the one at component_index when
\* it is given); on success exactly one vertex changes its label, it is a
\* vertex of degree 1 in the DFS spanning tree of the chosen component, its
\* new label is the maximum used label of the input + 1, every other vertex
\* keeps its label, and numBlocks increases by exactly 1.
C20_ScSplitsOffOneLeaf ==
    call.op = "performScOperation"
    => /\ result.success <=> Splittable(call.before, graph, call.block_id,
                                        call.component_index) # {}
       /\ result.success
          => /\ ScRelabelsOne
             /\ ScMovesLeaf
             /\ getNumBlocks(result.result_partition) = getNumBlocks(call.before) + 1

\* The vertices of the block a split was asked for.
SplitBlock == {v \in Vertices(call.before) : call.before.partition_[v] = call.block_id}

\* Each component other than the first gets the label max + its position,
\* the first keeps the block's label, vertices outside the block keep theirs.
SuRelabelsComponents ==
    LET components == BlockComponents(call.before, graph, call.block_id)
        max_label == MaxOf(UsedLabels(call.before))
        after == result.result_partition
    IN /\ after.num_vertices_ = call.before.num_vertices_
       /\ \A v \in Vertices(call.before) \ SplitBlock :
            after.partition_[v] = call.before.partition_[v]
       /\ \A C \in components : \A v \in C :
            after.partition_[v] =
               IF MinOf(SplitBlock) \in C THEN call.block_id
               ELSE max_label + ComponentPosition(components, C)

\* Every block of the result that holds a vertex of the split block is
\* connected.
SuBlocksConnected ==
    \A v \in SplitBlock :
       Cardinality(BlockComponents(result.result_partition, graph,
                                   result.result_partition.partition_[v])) = 1

\* C21 (as claimed): performSuOperation succeeds exactly when the block has
\* at least two intra-block components; on success the component of the
\* block's lowest vertex keeps the label, the other c - 1 components get
\* max + 1, max + 2, ... in component order, vertices outside the block are
\* unchanged, numBlocks grows by c - 1 and every block made from the
\* target's vertices is connected.
C21_SuSplitsIntoComponents ==
    call.op = "performSuOperation"
    => LET c == Cardinality(BlockComponents(call.before, graph, call.block_id))
       IN /\ result.success <=> c >= 2
          /\ result.success
             => /\ SuRelabelsComponents
                /\ SuBlocksConnected
                /\ getNumBlocks(result.result_partition)
                     = getNumBlocks(call.before) + c - 1

\* The number of qi-pairs of a candidate: pairs of its blocks without an
\* edge between them.
QiPairCount(o) ==
    LET P == o.result_partition
    IN Cardinality({b \in UsedLabels(P) \X UsedLabels(P) :
                      b[1] < b[2] /\ ~CrossingEdge(P, graph, b[1], b[2])})

\* The qi-number a candidate carries.
CandidateQi(o) == o.result_partition.qi_number_

\* The candidates handed to the selection.
Candidates == SeqRange(call.sc_options)

\* C22 (as claimed): from a list of at least one Sc candidate the selection
\* returns a candidate with qi-number 2 whenever there is one, and among
\* those one with the most qi-pairs; without a qi-number-2 candidate it
\* returns a candidate with positive qi-number when there is one, else the
\* first candidate.
C22_SelectsBestScCandidate ==
    (call.op = "selectOptimalScOperation" /\ call.sc_options # <<>>)
    => /\ result \in Candidates
       /\ (\E o \in Candidates : CandidateQi(o) = 2)
          => /\ CandidateQi(result) = 2
             /\ \A o \in Candidates :
                  CandidateQi(o) = 2 => QiPairCount(result) >= QiPairCount(o)
       /\ (\A o \in Candidates : CandidateQi(o) # 2)
          => IF \E o \in Candidates : CandidateQi(o) > 0
             THEN CandidateQi(result) > 0
             ELSE result = call.sc_options[1]

\* Two candidates with qi-number 2 and different numbers of qi-pairs were
\* offered, the first of them with fewer, and the later one was selected.
C22_Witness ==
    /\ call.op = "selectOptimalScOperation"
    /\ Len(call.sc_options) >= 2
    /\ \E i \in DOMAIN call.sc_options :
         /\ CandidateQi(call.sc_options[i]) = 2
         /\ QiPairCount(call.sc_options[i]) < QiPairCount(result)
         /\ \A j \in 1..(i - 1) : CandidateQi(call.sc_options[j]) # 2
    /\ CandidateQi(result) = 2

\* The labels of P after vertex v was split out into the block max + 1.
SplitOut(P, v) == [P.partition_ EXCEPT ![v] = MaxOf(UsedLabels(P)) + 1]

\* The Sc outcomes of a partition: for every block, every component of at
\* least two vertices and every leaf of its spanning tree, the labels with
\* the leaf split out.
ScOutcomes(P, G) ==
    UNION {UNION {{SplitOut(P, v) :
                     v \in SeqRange(findLeafVerticesInSpanningTree(
                                       findComponentsInBlock(P, G, b)[i], G))} :
                  i \in {j \in DOMAIN findComponentsInBlock(P, G, b) :
                           Len(findComponentsInBlock(P, G, b)[j]) >= 2}} :
           b \in UsedLabels(P)}

\* C23 (as claimed): the candidate list of findAllScOperations contains,
\* for every block, every splittable component and every spanning-tree
\* leaf of it, the partition with that leaf split out, whatever the random
\* choices were.
C23_EveryScOutcomeIsCandidate ==
    call.op = "selectOptimalScOperation"
    => \A labels \in ScOutcomes(call.before, graph) :
         \E o \in Candidates : o.result_partition.partition_ = labels

\* C24: in a search of either variant every subset taken up by an
\* invocation of findOptimalQi finds the used array as the invocation was
\* passed it: no invocation modifies its used array, the marks of a group
\* go into a copy, and all siblings start from the same array.
C24_UsedIsCopiedPerBranch ==
    call.computed
    => \A a \in call.qi.search.seen, b \in call.qi.search.seen :
         a[1] = b[1] => a[3] = b[3]

\* A search in which an invocation below the top took up two subsets.
C24_Witness ==
    /\ call.computed
    /\ \E a \in call.qi.search.seen, b \in call.qi.search.seen :
         /\ a[1] = b[1]
         /\ a[2] >= 1
         /\ b[2] > a[2]
         /\ a[3] # {}

\* The values a qi computation on the labels of P can return, with or
\* without a threshold.
QiValues(P, G) ==
    {qi.value : qi \in calculateQiNumberInternal(P, G)} \cup
    UNION {{qi.value : qi \in calculateQiNumberInternalMin(P, G, t)} : t \in Thresholds}

\* A cache marked valid holds a value computed on the current labels.
Coherent(P) == P.qi_calculated_ => P.qi_number_ \in QiValues(P, graph)

\* C25: whenever the qi cache of a partition is marked valid, the cached
\* qi-number is a value a qi computation on its current labels returns; a
\* setLabel or mergeBlocks that changed a label left the cache invalid.
C25_CacheIsCoherent ==
    /\ Coherent(partition)
    /\ result # NoResult => Coherent(result.result_partition)
    /\ (call.op \in {"setLabel", "mergeBlocks"}
        /\ call.before.partition_ # partition.partition_)
       => ~partition.qi_calculated_

\* A valid cache was copied, the labels were changed, and the copy was
\* assigned back: the cache is valid again.
C25_Witness ==
    /\ call.op = "assign"
    /\ partition.qi_calculated_
    /\ ~call.before.qi_calculated_
    /\ call.before.partition_ # partition.partition_

\* The qi-number the last call left satisfies the contract of a call
\* without a threshold: the exact value.
ExactContract == partition.qi_number_ = BruteQi(call.before, graph)

\* The qi-number the last call left satisfies the contract of a call with
\* a threshold on the exact path: at least the threshold when the threshold
\* does not exceed the true qi-number.
ThresholdContract ==
    (getNumBlocks(call.before) <= EXACT_MAX_BLOCKS
     /\ call.min_required_qi <= BruteQi(call.before, graph))
    => partition.qi_number_ >= call.min_required_qi

\* C26 (as claimed): on a partition whose labels do not change, after every
\* calculateQiNumber call, computed or served from the cache, getQiNumber
\* satisfies the contract of that call: the exact value after a call
\* without a threshold, a value >= t after a call with a threshold t <= the
\* true qi-number on the exact path.
C26_EachCallMeetsItsContract ==
    /\ call.op = "calculateQiNumber" => ExactContract
    /\ call.op = "calculateQiNumberMin" => ThresholdContract

\* C27 (as claimed): the number of quotient-connected pairs that
\* findAllMcOperations writes into block1_array and block2_array never
\* exceeds MAX_VERTICES, the size of the two arrays.
C27_McPairsFitTheArrays ==
    call.op = "performRandomMcOperation"
    => Cardinality(findAllMcOperations(call.before, graph)) <= MAX_VERTICES

\* Every label of P lies in [0, n - 1] with n <= MAX_VERTICES.
LabelsInRange(P) ==
    /\ P.num_vertices_ <= MAX_VERTICES
    /\ \A v \in Vertices(P) : P.partition_[v] \in 0..(P.num_vertices_ - 1)

\* The last call of performRandomMcOperation merged two blocks.
RandomMcMerged ==
    /\ call.op = "performRandomMcOperation"
    /\ driver.exit # "crash"
    /\ ReturnedByRandomMc.partition_ # call.before.partition_

\* C28 (as claimed): in every state the driver reaches every label lies in
\* [0, n - 1] with n <= MAX_VERTICES, and the label that survives a merge
\* is the smaller of the two merged labels.
C28_DriverLabelsStayInRange ==
    /\ LabelsInRange(partition)
    /\ LabelsInRange(driver.next_partition)
    /\ RandomMcMerged
       => /\ call.block1 < call.block2
          /\ call.block1 \in UsedLabels(ReturnedByRandomMc)
          /\ call.block2 \notin UsedLabels(ReturnedByRandomMc)

\* The number of graph edges with one end in block b1 and the other in
\* block b2 of P.
CrossingEdgeCount(P, G, b1, b2) ==
    Cardinality({e \in VertexPairs(P.num_vertices_) :
                   /\ e \in G.adjMatrix_
                   /\ {P.partition_[e[1]], P.partition_[e[2]]} = {b1, b2}})

\* C29 (as claimed): every successful performMuOperation reports
\* interior_edge_change = 0, and every successful performMcOperation on two
\* distinct blocks reports the number of graph edges crossing between the
\* two blocks, which is at least 1.
C29_MergeReportsInteriorEdgeDelta ==
    /\ (call.op = "performMuOperation" /\ result.success)
       => result.interior_edge_change = 0
    /\ (call.op = "performMcOperation" /\ result.success /\ call.block1 # call.block2)
       => /\ result.interior_edge_change
             = CrossingEdgeCount(call.before, graph, call.block1, call.block2)
          /\ result.interior_edge_change >= 1

\* The vertices of the split component that stay in the block.
ScRemaining == SeqRange(ScChosen) \ ScMoved

\* Every component of size >= 2 of the blocks a caller may name has at least
\* two leaves in its DFS spanning tree.
EveryComponentHasTwoLeaves(P, G) ==
    \A block_id \in UsedLabels(P) \cap ScBlockIds :
       LET components == findComponentsInBlock(P, G, block_id)
       IN \A i \in 1..Len(components) :
            Len(components[i]) >= 2
            => Len(findLeafVerticesInSpanningTree(components[i], G)) >= 2

\* C30: for every connected component of size >= 2
\* findLeafVerticesInSpanningTree returns at least two vertices, so the
\* fallback to an arbitrary vertex is never taken; after a successful Sc
\* the remaining vertices of the chosen component are still connected and
\* the original block has as many connected components as before.
C30_ScKeepsComponentsConnected ==
    /\ EveryComponentHasTwoLeaves(partition, graph)
    /\ (call.op = "performScOperation" /\ result.success)
       => /\ Len(findLeafVerticesInSpanningTree(ScChosen, graph)) >= 2
          /\ ScRemaining # {}
          /\ ClosureIn(graph, ScRemaining, {MinOf(ScRemaining)}) = ScRemaining
          /\ Cardinality(BlockComponents(result.result_partition, graph, call.block_id))
             = Cardinality(BlockComponents(call.before, graph, call.block_id))

\* A successful Sc on a component of three vertices or more, one of which
\* is not a leaf of the spanning tree: at least two vertices remain.
C30_Witness ==
    /\ call.op = "performScOperation"
    /\ result.success
    /\ Len(ScChosen) >= 3
    /\ Len(findLeafVerticesInSpanningTree(ScChosen, graph)) < Len(ScChosen)
    /\ Cardinality(ScRemaining) >= 2

====
